---- MODULE Spec2Model ----
(***************************************************************************)
(* MarketPress: the normalizer (src/data_normalization.py) and the signal *)
(* engine (src/signals.py) as state machines over tables.                 *)
(*                                                                         *)
(* A table (pandas DataFrame) is a sequence of rows; a row is a record     *)
(* whose domain is the set of its columns.  A cell that may be missing     *)
(* (None / NaN) is NaN == <<>> or Val(x) == <<x>>.                          *)
(*                                                                         *)
(* Units.  Prices, deltas and spreads are held in cents (the code's        *)
(* probability unit times CentsPerUnit).  The 0..1 scores are fixed-point  *)
(* integers in units of 1/Scale.  newsworthiness is held in units of       *)
(* 1/(WeightSum*Scale), so that its weighted sum involves no rounding.     *)
(* Time is in hours.                                                       *)
(***************************************************************************)
EXTENDS Integers, Sequences, FiniteSets, TLC

VARIABLES
    pc,                   \* position in the pipeline being exercised
    raw_markets,          \* List[Dict] handed to the normalizer
    markets_df,           \* the markets table (input of compute_all_signals)
    liquidity_df,         \* table returned by normalize_liquidity_spread
    snapshot,             \* table returned by normalize_snapshots
    historical_snapshots, \* Optional[DataFrame] handed to compute_all_signals
    now,                  \* pd.Timestamp.now(), in hours
    signals_df,           \* table returned by compute_all_signals
    n_top,                \* n handed to rank_top_stories
    top_stories,          \* table returned by rank_top_stories
    sections,             \* dict returned by organize_into_sections
    thresholds,           \* thresholds handed to identify_developing_stories
    developing_stories,   \* table returned by identify_developing_stories
    lowered,              \* a second call of it with thresholds no higher
    selected,             \* tables returned by the selectors of the notebook
    use_demo,             \* MarketPress.use_demo
    DEMO_AVAILABLE,       \* whether demo_data could be imported
    last_fetch,           \* the last call of fetch_data: limit, what the live
                          \* source did, and the value returned
    USE_DEMO_DATA,        \* the setting of the notebook
    DATA_MODE,            \* the mode flag of the notebook
    origin,               \* where the raw markets behind the current table
                          \* came from: "none", "live" or "demo"
    loader,               \* load_demo_data_from_files: the demo file, limit,
                          \* the local markets and the list returned
    raised                \* exception the last call let escape, "" if none

normalizerVars == <<raw_markets, markets_df, liquidity_df, snapshot>>
engineVars == <<historical_snapshots, now, n_top, top_stories>>
layoutVars == <<sections, thresholds, developing_stories, lowered, selected>>
appVars == <<use_demo, DEMO_AVAILABLE, last_fetch, USE_DEMO_DATA, DATA_MODE, origin, loader>>

vars == <<pc, normalizerVars, engineVars, signals_df, layoutVars, appVars, raised>>

-----------------------------------------------------------------------------
(* Bounds of the model *)

MaxRows == 3      \* rows of a markets table
MaxHist == 2      \* rows of a history table
MaxRaw == 2       \* records of a raw batch
MaxLevels == 3    \* levels on the yes side of an orderbook
MaxLimit == 2     \* limit handed to fetch_data
MaxSnapshotRows == 3   \* rows of MarketPress.snapshots_df
MaxFile == 3      \* records of the demo file
MaxLoad == 4      \* limit handed to load_demo_data_from_files
MaxCalls == 3     \* calls of fetch_data to itself that are followed

-----------------------------------------------------------------------------
(* Program constants *)

CentsPerUnit == 100       \* "/ 100.0": cents -> probability
Scale == CentsPerUnit * CentsPerUnit   \* resolution of the 0..1 scores

H24 == 24                 \* timedelta(hours=24)
D7 == 7 * 24              \* timedelta(days=7)
WindowHours == 24         \* compute_volatility(window_hours=24)

VolumeWeight == 6         \* 0.6 * volume_score
OIWeight == 4             \* 0.4 * oi_score
AttentionWeightSum == VolumeWeight + OIWeight

ConfRate == 15            \* exp(-x * 15)
NeutralConfidence == Scale \div 2      \* 0.5

DeltaWeight == 4          \* 0.4 * delta_score
AttnWeight == 3           \* 0.3 * attention
ConfWeight == 2           \* 0.2 * confidence
VolWeight == 1            \* 0.1 * vol_score
WeightSum == DeltaWeight + AttnWeight + ConfWeight + VolWeight

-----------------------------------------------------------------------------
(* Missing values and small helpers *)

NaN == <<>>
Val(x) == <<x>>
notna(x) == x # NaN
Get(x) == x[1]
fillna(x, d) == IF notna(x) THEN Get(x) ELSE d

Abs(x) == IF x < 0 THEN -x ELSE x
SetMax(S) == CHOOSE m \in S : \A x \in S : x <= m
SetMin(S) == CHOOSE m \in S : \A x \in S : m <= x
Min2(a, b) == IF a <= b THEN a ELSE b

\* float subtraction: a missing operand gives a missing result
Sub(a, b) == IF notna(a) /\ notna(b) THEN Val(Get(a) - Get(b)) ELSE NaN

\* float division x / m of a Series by a scalar, as a 0..1 score:
\* 0 / 0 is NaN (numpy raises nothing), x / 0 is inf and is not representable
Ratio(x, m) == IF m = 0 THEN NaN ELSE Val((Scale * x) \div m)

\* df[col] = value / df.assign: new columns replace old ones of the same name
WithCols(row, cols) == cols @@ row

\* the sequences over S of length at most n
SeqsUpTo(S, n) == UNION {[1..k -> S] : k \in 0..n}

RECURSIVE SumSeq(_)
SumSeq(s) == IF s = <<>> THEN 0 ELSE Head(s) + SumSeq(Tail(s))

\* Series.unique(): the distinct values, in order of first appearance
RECURSIVE Unique(_)
Unique(s) ==
    IF s = <<>> THEN <<>>
    ELSE LET u == Unique(SubSeq(s, 1, Len(s) - 1))
             x == s[Len(s)]
         IN IF \E i \in DOMAIN u : u[i] = x THEN u ELSE Append(u, x)

Column(df, col) == [i \in DOMAIN df |-> df[i][col]]

\* df[df['ticker'] == ticker]: the rows of a ticker, in table order
RowsOf(df, ticker) == SelectSeq(df, LAMBDA r : r.ticker = ticker)

\* largest r in lo..hi with r * r <= x  (hi * hi must exceed x)
RECURSIVE IsqrtIn(_, _, _)
IsqrtIn(x, lo, hi) ==
    IF hi - lo <= 1 THEN lo
    ELSE LET mid == (lo + hi) \div 2
         IN IF mid * mid <= x THEN IsqrtIn(x, mid, hi) ELSE IsqrtIn(x, lo, mid)
Isqrt(x) == IsqrtIn(x, 0, 4 * Scale)


-----------------------------------------------------------------------------
(* src/data_normalization.py *)

\* A raw field of a market dict: absent, an int, or a str.  A timestamp field
\* is absent, an ISO 8601 string (val: the instant it denotes) or a string
\* pd.to_datetime cannot parse.
Absent == [kind |-> "absent", val |-> 0]
RawInt(n) == [kind |-> "int", val |-> n]
RawStr == [kind |-> "str", val |-> 0]
RawIso(t) == [kind |-> "iso", val |-> t]
RawGarbage == [kind |-> "garbage", val |-> 0]

\* Python truthiness of market.get(key): None and 0 are falsy
Truthy(raw) == raw.kind \in {"str", "iso", "garbage"} \/ (raw.kind = "int" /\ raw.val # 0)

\* market.get(key, 0) / 100.0 if market.get(key) else None
PriceRaises(raw) == Truthy(raw) /\ raw.kind # "int"

\* the price without the truthiness test: a raw 0 becomes the price 0
PriceOf_zero(raw) == IF raw.kind = "absent" THEN NaN ELSE Val(raw.val)
PriceOf(raw) == IF Truthy(raw) THEN Val(raw.val) ELSE NaN

\* pd.to_datetime(market.get(key)) if market.get(key) else None
TimeRaises(raw) == Truthy(raw) /\ raw.kind # "iso"
TimeOf(raw) == IF Truthy(raw) THEN Val(raw.val) ELSE NaN

\* market.get(key, 0) for the counters
CounterOf(raw) == IF raw.kind = "absent" THEN 0 ELSE raw.val

\* A raw text field of a market dict: the key is absent, its value is None, or
\* it is a str (the sequence of its characters).
TextAbsent == [kind |-> "absent", text |-> <<>>]
TextNone == [kind |-> "none", text |-> <<>>]
TextStr(text) == [kind |-> "str", text |-> text]

\* market.get(key, default) for the text fields: the default only replaces an
\* absent key, a None stays None
TextOf(raw, default) ==
    IF raw.kind = "absent" THEN Val(default)
    ELSE IF raw.kind = "none" THEN NaN
    ELSE Val(raw.text)

\* market.get('category', 'Other')
DefaultCategory == <<"O", "t", "h", "e", "r">>

\* building market_row raises inside the try block
MarketRowRaises(market) ==
    \/ PriceRaises(market.yes_price)
    \/ PriceRaises(market.no_price)
    \/ PriceRaises(market.last_price)
    \/ TimeRaises(market.open_time)
    \/ TimeRaises(market.close_time)
    \/ TimeRaises(market.expiration_time)
    \/ PriceRaises(market.previous_yes_price)

MarketRow(market) ==
    [ticker |-> market.ticker,
     title |-> TextOf(market.title, <<>>),
     subtitle |-> TextOf(market.subtitle, <<>>),
     category |-> TextOf(market.category, DefaultCategory),
     yes_price |-> PriceOf(market.yes_price),
     no_price |-> PriceOf(market.no_price),
     last_price |-> PriceOf(market.last_price),
     open_time |-> TimeOf(market.open_time),
     close_time |-> TimeOf(market.close_time),
     expiration_time |-> TimeOf(market.expiration_time),
     volume |-> CounterOf(market.volume),
     open_interest |-> CounterOf(market.open_interest),
     previous_yes_price |-> PriceOf(market.previous_yes_price)]

\* the loop without the try block around a record: the first record that
\* raises ends the batch
RECURSIVE NormalizeLoop_abort(_)
NormalizeLoop_abort(raw) ==
    IF raw = <<>> THEN <<>>
    ELSE IF MarketRowRaises(Head(raw)) THEN <<>>
    ELSE <<MarketRow(Head(raw))>> \o NormalizeLoop_abort(Tail(raw))

\* the loop of normalize_markets: a record that raises is skipped (continue)
RECURSIVE NormalizeLoop(_)
NormalizeLoop(raw) ==
    IF raw = <<>> THEN <<>>
    ELSE IF MarketRowRaises(Head(raw)) THEN NormalizeLoop(Tail(raw))
    ELSE <<MarketRow(Head(raw))>> \o NormalizeLoop(Tail(raw))

normalize_markets(raw, t) ==
    LET df == NormalizeLoop(raw)
    IN [i \in DOMAIN df |-> WithCols(df[i], [fetch_time |-> t])]

\* market.get('ticker') of a record without the key, and the None it leaves in
\* the ticker cell of a row; no ticker of the model is this string
NoTicker == "None"

\* building a snapshot raises inside the try block
SnapshotRaises(market) ==
    \/ PriceRaises(market.yes_price)
    \/ PriceRaises(market.no_price)
    \/ PriceRaises(market.last_price)

SnapshotRow(market, snapshot_time) ==
    [ticker |-> market.ticker,
     snapshot_time |-> snapshot_time,
     yes_price |-> PriceOf(market.yes_price),
     no_price |-> PriceOf(market.no_price),
     last_price |-> PriceOf(market.last_price),
     volume |-> CounterOf(market.volume),
     open_interest |-> CounterOf(market.open_interest)]

\* the loop of normalize_snapshots: a record that raises is skipped
RECURSIVE normalize_snapshots(_, _)
normalize_snapshots(raw, snapshot_time) ==
    IF raw = <<>> THEN <<>>
    ELSE IF SnapshotRaises(Head(raw)) THEN normalize_snapshots(Tail(raw), snapshot_time)
    ELSE <<SnapshotRow(Head(raw), snapshot_time)>>
             \o normalize_snapshots(Tail(raw), snapshot_time)

\* The orderbook field of a market dict: the key is absent (the default {} is
\* used), its value is None, or it is a dict with the level lists of the two
\* sides.  A level is a dict with type, price (cents) and quantity.
NoBook == [kind |-> "absent", yes |-> <<>>, no |-> <<>>]
NoneBook == [kind |-> "none", yes |-> <<>>, no |-> <<>>]
Book(yes, no) == [kind |-> "dict", yes |-> yes, no |-> no]

\* the best bid is the price of the last bid level seen, the best ask that of
\* the last ask level seen
RECURSIVE ScanYes_last(_, _, _)
ScanYes_last(levels, yes_best_bid, yes_best_ask) ==
    IF levels = <<>> THEN <<yes_best_bid, yes_best_ask>>
    ELSE LET level == Head(levels)
         IN IF level.type = "bid"
            THEN ScanYes_last(Tail(levels), Val(level.price), yes_best_ask)
            ELSE IF level.type = "ask"
            THEN ScanYes_last(Tail(levels), yes_best_bid, Val(level.price))
            ELSE ScanYes_last(Tail(levels), yes_best_bid, yes_best_ask)

\* the scan of the yes side of an orderbook: <<yes_best_bid, yes_best_ask>>
RECURSIVE ScanYes(_, _, _)
ScanYes(levels, yes_best_bid, yes_best_ask) ==
    IF levels = <<>> THEN <<yes_best_bid, yes_best_ask>>
    ELSE LET level == Head(levels)
             price == level.price
         IN IF level.type = "bid"
            THEN ScanYes(Tail(levels),
                     IF yes_best_bid = NaN \/ price > Get(yes_best_bid)
                     THEN Val(price) ELSE yes_best_bid,
                     yes_best_ask)
            ELSE IF level.type = "ask"
            THEN ScanYes(Tail(levels), yes_best_bid,
                     IF yes_best_ask = NaN \/ price < Get(yes_best_ask)
                     THEN Val(price) ELSE yes_best_ask)
            ELSE ScanYes(Tail(levels), yes_best_bid, yes_best_ask)

\* spread = yes_best_ask - yes_best_bid when both exist, else None
SpreadOf(yes_levels) ==
    LET best == ScanYes(yes_levels, NaN, NaN)
    IN IF best[1] # NaN /\ best[2] # NaN THEN Sub(best[2], best[1]) ELSE NaN

\* mid_price = (yes_best_bid + yes_best_ask) / 2 when both exist, else None;
\* half a cent is representable in units of 1/Scale
MidPriceOf(yes_levels) ==
    LET best == ScanYes(yes_levels, NaN, NaN)
    IN IF best[1] # NaN /\ best[2] # NaN
       THEN Val(((Get(best[1]) + Get(best[2])) * CentsPerUnit) \div 2)
       ELSE NaN

\* yes_bid_volume, yes_ask_volume, ...: the quantities of the levels of a type
SideVolume(levels, type) ==
    SumSeq([i \in DOMAIN levels |->
               IF levels[i].type = type THEN levels[i].quantity ELSE 0])

\* orderbook.get on the None a record carries raises inside the try block
LiquidityRowRaises(market) == market.orderbook.kind = "none"

LiquidityRow(market, timestamp) ==
    LET orderbook == market.orderbook
        yes_best == ScanYes(orderbook.yes, NaN, NaN)
        \* the no side is scanned by a copy of the loop of the yes side
        no_best == ScanYes(orderbook.no, NaN, NaN)
        yes_bid_volume == SideVolume(orderbook.yes, "bid")
        yes_ask_volume == SideVolume(orderbook.yes, "ask")
        no_bid_volume == SideVolume(orderbook.no, "bid")
        no_ask_volume == SideVolume(orderbook.no, "ask")
    IN [ticker |-> market.ticker,
        timestamp |-> timestamp,
        yes_best_bid |-> yes_best[1],
        yes_best_ask |-> yes_best[2],
        yes_bid_volume |-> yes_bid_volume,
        yes_ask_volume |-> yes_ask_volume,
        no_best_bid |-> no_best[1],
        no_best_ask |-> no_best[2],
        no_bid_volume |-> no_bid_volume,
        no_ask_volume |-> no_ask_volume,
        spread |-> SpreadOf(orderbook.yes),
        mid_price |-> MidPriceOf(orderbook.yes),
        total_liquidity |-> yes_bid_volume + yes_ask_volume
                            + no_bid_volume + no_ask_volume]

\* the loop of normalize_liquidity_spread: a record that raises is skipped
RECURSIVE normalize_liquidity_spread(_, _)
normalize_liquidity_spread(raw, timestamp) ==
    IF raw = <<>> THEN <<>>
    ELSE IF LiquidityRowRaises(Head(raw))
    THEN normalize_liquidity_spread(Tail(raw), timestamp)
    ELSE <<LiquidityRow(Head(raw), timestamp)>>
             \o normalize_liquidity_spread(Tail(raw), timestamp)

\* the columns of liquidity_df the merge brings into the markets table
MergedColumns == {"spread", "mid_price", "total_liquidity", "yes_best_bid", "yes_best_ask"}

\* markets_df.merge(liquidity_df[[...]], on='ticker', how='left'): a market row
\* is paired with every liquidity row of its ticker, in their order, and kept
\* once with missing values when there is none
RECURSIVE LeftMerge(_, _)
LeftMerge(left, right) ==
    IF left = <<>> THEN <<>>
    ELSE LET row == Head(left)
             matches == RowsOf(right, row.ticker)
             joined == IF matches = <<>>
                       THEN <<WithCols(row, [c \in MergedColumns |-> NaN])>>
                       ELSE [k \in DOMAIN matches |->
                               WithCols(row, [c \in MergedColumns |->
                                   IF c = "total_liquidity" THEN Val(matches[k][c])
                                   ELSE matches[k][c]])]
         IN joined \o LeftMerge(Tail(left), right)

merge_normalized_data(markets, liquidity) ==
    IF markets = <<>> \/ liquidity = <<>> THEN markets
    ELSE LeftMerge(markets, liquidity)

-----------------------------------------------------------------------------
(* src/signals.py *)

\* rows of a history table with the given ticker, in table order
SnapshotsOf(hist, ticker) == SelectSeq(hist, LAMBDA s : s.ticker = ticker)

\* the earliest qualifying snapshot (iloc[0]) in place of the latest
ReferenceSnapshot_earliest(ticker_snapshots, cutoff, pick) ==
    LET qualifying == SelectSeq(ticker_snapshots, LAMBDA s : s.snapshot_time <= cutoff)
        times == {qualifying[i].snapshot_time : i \in DOMAIN qualifying}
        earliest == CHOOSE m \in times : \A x \in times : m <= x
        tied == SelectSeq(qualifying, LAMBDA s : s.snapshot_time = earliest)
    IN tied[((pick - 1) % Len(tied)) + 1]

\* ticker_snapshots.sort_values('snapshot_time')[snapshot_time <= cutoff].iloc[-1]:
\* a snapshot of the latest qualifying snapshot_time.  sort_values uses an
\* unstable sort, so among snapshots of one snapshot_time the last one is any
\* of them: pick selects it.
ReferenceSnapshot(ticker_snapshots, cutoff, pick) ==
    LET qualifying == SelectSeq(ticker_snapshots, LAMBDA s : s.snapshot_time <= cutoff)
        latest == SetMax({qualifying[i].snapshot_time : i \in DOMAIN qualifying})
        tied == SelectSeq(qualifying, LAMBDA s : s.snapshot_time = latest)
    IN tied[((pick - 1) % Len(tied)) + 1]

HasReference(ticker_snapshots, cutoff) ==
    \E i \in DOMAIN ticker_snapshots : ticker_snapshots[i].snapshot_time <= cutoff

\* the delta of one horizon for one ticker
DeltaFor(current_price, ticker_snapshots, cutoff, pick) ==
    IF HasReference(ticker_snapshots, cutoff)
    THEN Sub(current_price, ReferenceSnapshot(ticker_snapshots, cutoff, pick).yes_price)
    ELSE NaN

\* the proxy with its operands exchanged
ProxyDelta_reversed(row) == Sub(row.previous_yes_price, row.yes_price)

\* df['yes_price'] - df['previous_yes_price']
ProxyDelta(row) == Sub(row.yes_price, row.previous_yes_price)

compute_probability_changes(current_df, hist, t, pick) ==
    LET df == [i \in DOMAIN current_df |->
                  WithCols(current_df[i], [delta_24h |-> NaN, delta_7d |-> NaN])]
    IN IF hist = NaN \/ Get(hist) = <<>>
       THEN \* previous_yes_price as a proxy for the 24h change
            [i \in DOMAIN df |->
                IF "previous_yes_price" \in DOMAIN df[i] /\ "yes_price" \in DOMAIN df[i]
                THEN WithCols(df[i], [delta_24h |-> ProxyDelta(df[i])])
                ELSE df[i]]
       ELSE LET h24_ago == t - H24
                d7_ago == t - D7
                FirstOf(ticker) == CHOOSE i \in DOMAIN df :
                    /\ df[i].ticker = ticker
                    /\ \A j \in DOMAIN df : df[j].ticker = ticker => i <= j
                current_price(ticker) == df[FirstOf(ticker)].yes_price
            IN [i \in DOMAIN df |->
                  LET ticker == df[i].ticker
                      ticker_snapshots == SnapshotsOf(Get(hist), ticker)
                  IN IF ticker_snapshots = <<>> THEN df[i]
                     ELSE WithCols(df[i],
                            [delta_24h |-> DeltaFor(current_price(ticker),
                                               ticker_snapshots, h24_ago, pick),
                             delta_7d |-> DeltaFor(current_price(ticker),
                                               ticker_snapshots, d7_ago, pick)])]

\* Series.std(): the sample standard deviation of at least 2 prices (in cents),
\* in units of 1/Scale of the probability unit
SampleStd(prices) ==
    LET n == Len(prices)
        sum == SumSeq(prices)
        sumsq == SumSeq([i \in DOMAIN prices |-> prices[i] * prices[i]])
    IN Isqrt((Scale * (n * sumsq - sum * sum)) \div (n * (n - 1)))

\* the snapshots compute_volatility keeps: those of the last window_hours
InWindow(row, t, window_hours) == row.snapshot_time >= t - window_hours

\* the window restriction left out
RecentSnapshots_unfiltered(snapshots_df, t, window_hours) == snapshots_df

RecentSnapshots(snapshots_df, t, window_hours) ==
    SelectSeq(snapshots_df, LAMBDA s : InWindow(s, t, window_hours))

\* prices.dropna() of one ticker's recent snapshots
WindowPrices(recent_snapshots, ticker) ==
    LET ticker_data == SnapshotsOf(recent_snapshots, ticker)
        present == SelectSeq(ticker_data, LAMBDA s : notna(s.yes_price))
    IN [i \in DOMAIN present |-> Get(present[i].yes_price)]

\* the minimum number of observations for a volatility row
MinObservations == 2

compute_volatility(snapshots_df, t, window_hours) ==
    IF snapshots_df = <<>> THEN <<>>
    ELSE LET recent_snapshots == RecentSnapshots(snapshots_df, t, window_hours)
             tickers == Unique(Column(recent_snapshots, "ticker"))
             kept == SelectSeq(tickers, LAMBDA ticker :
                        /\ Len(SnapshotsOf(recent_snapshots, ticker)) >= MinObservations
                        /\ Len(WindowPrices(recent_snapshots, ticker)) >= MinObservations)
         IN [k \in DOMAIN kept |->
               [ticker |-> kept[k],
                volatility |-> Val(SampleStd(WindowPrices(recent_snapshots, kept[k]))),
                price_observations |-> Len(WindowPrices(recent_snapshots, kept[k]))]]

\* the batch maximum without the guard against 0
UnguardedMax(values) == SetMax({values[i] : i \in DOMAIN values})

\* max_volume / max_oi: the batch maximum, or 1 when it is not positive
GuardedMax(values) ==
    LET m == SetMax({values[i] : i \in DOMAIN values})
    IN IF m > 0 THEN m ELSE 1

\* the weights of attention exchanged for a plain sum
SummedAttention(volume_score, oi_score) ==
    IF notna(volume_score) /\ notna(oi_score)
    THEN Val(Get(volume_score) + Get(oi_score))
    ELSE NaN

\* 0.6 * volume_score + 0.4 * oi_score
WeightedAttention(volume_score, oi_score) ==
    IF notna(volume_score) /\ notna(oi_score)
    THEN Val((VolumeWeight * Get(volume_score) + OIWeight * Get(oi_score))
                 \div AttentionWeightSum)
    ELSE NaN

compute_attention_metrics(df) ==
    IF df = <<>> THEN df
    ELSE LET max_volume == GuardedMax(Column(df, "volume"))
             max_oi == GuardedMax(Column(df, "open_interest"))
         IN [i \in DOMAIN df |->
               LET volume_score == Ratio(df[i].volume, max_volume)
                   oi_score == Ratio(df[i].open_interest, max_oi)
               IN WithCols(df[i],
                     [volume_score |-> volume_score,
                      oi_score |-> oi_score,
                      attention_score |-> WeightedAttention(volume_score, oi_score)])]

\* np.exp(-15 * 0.01), the factor one cent of spread contributes, in units of
\* 1/Scale: the Taylor series of exp at -ConfRate/CentsPerUnit, whose k-th
\* term is held in units of 1/Scale^2
RECURSIVE ExpTerm(_)
ExpTerm(k) ==
    IF k = 0 THEN Scale * Scale
    ELSE (-(ExpTerm(k - 1) * ConfRate)) \div (CentsPerUnit * k)
ExpDecayPerCent ==
    (ExpTerm(0) + ExpTerm(1) + ExpTerm(2) + ExpTerm(3) + ExpTerm(4) + ExpTerm(5))
        \div Scale

\* np.exp(-x * 15) for a spread of c cents, c >= 0
RECURSIVE ExpDecay(_)
ExpDecay(c) == IF c = 0 THEN Scale ELSE (ExpDecay(c - 1) * ExpDecayPerCent) \div Scale

\* lambda x: np.exp(-x * 15) if pd.notna(x) and x >= 0 else 0.5
confidence_of(spread) ==
    IF notna(spread) /\ Get(spread) >= 0 THEN ExpDecay(Get(spread))
    ELSE NeutralConfidence

compute_confidence_metrics(df) ==
    [i \in DOMAIN df |->
        IF "spread" \notin DOMAIN df[i]
        THEN WithCols(df[i], [confidence_score |-> Val(NeutralConfidence)])
        ELSE WithCols(df[i], [confidence_score |-> Val(confidence_of(df[i].spread))])]

\* df.merge(volatility_df[['ticker', 'volatility']], on='ticker', how='left')
\* a column of the left table that the right table carries too is renamed
\* with the suffix _x, and the right one gets _y
MergeVolatility(df, volatility_df) ==
    [i \in DOMAIN df |->
        LET matches == SnapshotsOf(volatility_df, df[i].ticker)
            volatility == IF matches = <<>> THEN NaN ELSE matches[1].volatility
        IN IF "volatility" \in DOMAIN df[i]
           THEN [volatility_x |-> df[i].volatility, volatility_y |-> volatility]
                @@ [c \in DOMAIN df[i] \ {"volatility"} |-> df[i][c]]
           ELSE WithCols(df[i], [volatility |-> volatility])]

\* the volatility column compute_all_signals gives a table
VolatilityColumn(df, hist, t) ==
    IF hist # NaN /\ Get(hist) # <<>>
    THEN LET volatility_df == compute_volatility(Get(hist), t, WindowHours)
         IN IF volatility_df # <<>>
            THEN MergeVolatility(df, volatility_df)
            ELSE [i \in DOMAIN df |-> WithCols(df[i], [volatility |-> NaN])]
    ELSE [i \in DOMAIN df |-> WithCols(df[i], [volatility |-> NaN])]

\* compute_probability_changes reads df['ticker'] when there is history; the
\* empty table pd.DataFrame([]) has no columns
compute_all_signals_raises(df0, hist) ==
    IF df0 = <<>> /\ hist # NaN /\ Get(hist) # <<>> THEN "KeyError" ELSE ""

compute_all_signals(df0, hist, t, pick) ==
    LET df1 == compute_probability_changes(df0, hist, t, pick)
        df2 == VolatilityColumn(df1, hist, t)
        df3 == compute_attention_metrics(df2)
    IN compute_confidence_metrics(df3)

\* a sorts before b in descending order; missing values sort last
Before(a, b) == notna(a) /\ (b = NaN \/ Get(a) > Get(b))

\* the rank a row gets in a stable descending sort by col
RankOf(df, col, i) ==
    Cardinality({j \in DOMAIN df :
        \/ Before(df[j][col], df[i][col])
        \/ df[j][col] = df[i][col] /\ j < i})

\* nlargest with keep='last': among equal values the later row wins
nlargest_keep_last(df, n, col) ==
    [k \in 1..Min2(n, Len(df)) |->
        df[CHOOSE i \in DOMAIN df :
              Cardinality({j \in DOMAIN df :
                  \/ Before(df[j][col], df[i][col])
                  \/ df[j][col] = df[i][col] /\ j > i}) = k - 1]]

\* df.nlargest(n, col), keep='first'
nlargest(df, n, col) ==
    [k \in 1..Min2(n, Len(df)) |->
        df[CHOOSE i \in DOMAIN df : RankOf(df, col, i) = k - 1]]

\* delta_score without .abs(): a falling price gets a negative score
DeltaScore_signed(df, i) ==
    LET delta == [j \in DOMAIN df |-> fillna(df[j].delta_24h, 0)]
        m == SetMax({delta[j] : j \in DOMAIN df})
        max_delta == IF m > 0 THEN m ELSE 1
    IN Ratio(delta[i], max_delta)

\* the four terms of newsworthiness of row i, each in units of 1/Scale
DeltaScore(df, i) ==
    LET abs_delta == [j \in DOMAIN df |-> Abs(fillna(df[j].delta_24h, 0))]
        m == SetMax({abs_delta[j] : j \in DOMAIN df})
        max_delta == IF m > 0 THEN m ELSE 1
    IN Ratio(abs_delta[i], max_delta)

VolScore(df, i) ==
    LET vol == [j \in DOMAIN df |-> fillna(df[j].volatility, 0)]
        max_vol == SetMax({vol[j] : j \in DOMAIN df})
    IN IF max_vol > 0 THEN Ratio(vol[i], max_vol) ELSE Val(0)

Newsworthiness(df, i) ==
    LET delta_score == DeltaScore(df, i)
        attention == fillna(df[i].attention_score, 0)
        confidence == fillna(df[i].confidence_score, NeutralConfidence)
        vol_score == VolScore(df, i)
    IN IF notna(delta_score) /\ notna(vol_score)
       THEN Val(DeltaWeight * Get(delta_score) + AttnWeight * attention
                + ConfWeight * confidence + VolWeight * Get(vol_score))
       ELSE NaN

WithNewsworthiness(df) ==
    [i \in DOMAIN df |-> WithCols(df[i], [newsworthiness |-> Newsworthiness(df, i)])]

\* df[col] of a column the table does not have
rank_top_stories_raises(df) ==
    IF df # <<>> /\ ~({"delta_24h", "attention_score", "confidence_score", "volatility"}
                         \subseteq DOMAIN df[1])
    THEN "KeyError" ELSE ""

rank_top_stories(df, n) ==
    IF df = <<>> THEN df
    ELSE nlargest(WithNewsworthiness(df), n, "newsworthiness")


-----------------------------------------------------------------------------
(* src/layout.py *)

\* A str is the sequence of its characters; a text cell of a row is Val(str),
\* or NaN for None.
\* str.lower(), of one character
LowerChar(c) ==
    LET UpperCase == <<"A", "B", "C", "D", "E", "F", "G", "H", "I", "J", "K", "L", "M",
                       "N", "O", "P", "Q", "R", "S", "T", "U", "V", "W", "X", "Y", "Z">>
        LowerCase == <<"a", "b", "c", "d", "e", "f", "g", "h", "i", "j", "k", "l", "m",
                       "n", "o", "p", "q", "r", "s", "t", "u", "v", "w", "x", "y", "z">>
    IN IF \E i \in DOMAIN UpperCase : UpperCase[i] = c
       THEN LowerCase[CHOOSE i \in DOMAIN UpperCase : UpperCase[i] = c]
       ELSE c
lower(text) == [i \in DOMAIN text |-> LowerChar(text[i])]

\* keyword in text: substring containment
Contains(text, keyword) ==
    \E i \in 0..(Len(text) - Len(keyword)) :
        \A j \in DOMAIN keyword : text[i + j] = keyword[j]

\* CATEGORY_MAPPINGS, in the insertion order of the dict
CATEGORY_MAPPINGS == <<
    [section |-> "Politics", keywords |-> <<
         <<"P", "o", "l", "i", "t", "i", "c", "s">>,
         <<"E", "l", "e", "c", "t", "i", "o", "n", "s">>,
         <<"G", "o", "v", "e", "r", "n", "m", "e", "n", "t">>,
         <<"P", "o", "l", "i", "c", "y">>,
         <<"C", "o", "n", "g", "r", "e", "s", "s">>,
         <<"S", "e", "n", "a", "t", "e">>,
         <<"P", "r", "e", "s", "i", "d", "e", "n", "t">>>>],
    [section |-> "Business", keywords |-> <<
         <<"B", "u", "s", "i", "n", "e", "s", "s">>,
         <<"E", "c", "o", "n", "o", "m", "i", "c", "s">>,
         <<"F", "i", "n", "a", "n", "c", "e">>,
         <<"M", "a", "r", "k", "e", "t", "s">>,
         <<"S", "t", "o", "c", "k", "s">>,
         <<"E", "c", "o", "n", "o", "m", "y">>,
         <<"T", "r", "a", "d", "e">>>>],
    [section |-> "Tech", keywords |-> <<
         <<"T", "e", "c", "h", "n", "o", "l", "o", "g", "y">>,
         <<"T", "e", "c", "h">>,
         <<"A", "I">>,
         <<"C", "r", "y", "p", "t", "o">>,
         <<"I", "n", "n", "o", "v", "a", "t", "i", "o", "n">>,
         <<"S", "c", "i", "e", "n", "c", "e">>,
         <<"S", "p", "a", "c", "e">>>>],
    [section |-> "Culture", keywords |-> <<
         <<"C", "u", "l", "t", "u", "r", "e">>,
         <<"E", "n", "t", "e", "r", "t", "a", "i", "n", "m", "e", "n", "t">>,
         <<"S", "p", "o", "r", "t", "s">>,
         <<"A", "r", "t", "s">>,
         <<"M", "u", "s", "i", "c">>,
         <<"M", "o", "v", "i", "e", "s">>,
         <<"T", "V">>>>],
    [section |-> "Sports", keywords |-> <<
         <<"S", "p", "o", "r", "t", "s">>,
         <<"F", "o", "o", "t", "b", "a", "l", "l">>,
         <<"B", "a", "s", "k", "e", "t", "b", "a", "l", "l">>,
         <<"B", "a", "s", "e", "b", "a", "l", "l">>,
         <<"S", "o", "c", "c", "e", "r">>,
         <<"O", "l", "y", "m", "p", "i", "c", "s">>>>]>>

SectionNames == [k \in DOMAIN CATEGORY_MAPPINGS |-> CATEGORY_MAPPINGS[k].section]

\* row.get(col, ''): the cell, or '' when the row has no such column
TextCell(row, col) == IF col \in DOMAIN row THEN row[col] ELSE Val(<<>>)

\* .lower() on the None of a text cell raises AttributeError
categorize_market_raises(row) ==
    \E col \in {"category", "title", "subtitle"} : TextCell(row, col) = NaN

\* f"{category} {title} {subtitle}"
CombinedText(row) ==
    lower(Get(TextCell(row, "category"))) \o <<" ">>
    \o lower(Get(TextCell(row, "title"))) \o <<" ">>
    \o lower(Get(TextCell(row, "subtitle")))

\* the sections one of whose keywords is in the text, as indices of the table
MatchingSections(combined_text) ==
    {k \in DOMAIN CATEGORY_MAPPINGS :
        \E i \in DOMAIN CATEGORY_MAPPINGS[k].keywords :
            Contains(combined_text, lower(CATEGORY_MAPPINGS[k].keywords[i]))}

\* the last matching section in place of the first
categorize_market_last(row) ==
    LET matching == MatchingSections(CombinedText(row))
    IN IF matching = {} THEN "Other" ELSE SectionNames[SetMax(matching)]

\* the keywords of Sports are tried before those of Culture
categorize_market_sports_first(row) ==
    LET matching == MatchingSections(CombinedText(row))
    IN IF matching = {} THEN "Other"
       ELSE IF SetMin(matching) = 4 /\ 5 \in matching THEN "Sports"
       ELSE SectionNames[SetMin(matching)]

\* the loops return at the first match, in table order
categorize_market(row) ==
    LET matching == MatchingSections(CombinedText(row))
    IN IF matching = {} THEN "Other" ELSE SectionNames[SetMin(matching)]


\* the views organize_into_sections returns
ViewNames == {"Top Stories"} \cup {SectionNames[k] : k \in DOMAIN SectionNames}

TopStoriesCount == 10     \* df.nlargest(10, 'newsworthiness')
SectionCap == 15          \* section_data.head(15)
DevelopingCap == 10       \* developing.head(10)

HasColumn(df, col) == df # <<>> /\ col \in DOMAIN df[1]
head(df, n) == SubSeq(df, 1, Min2(n, Len(df)))

\* df.sort_values(col, ascending=False): descending, missing values last.  The
\* default sort is not stable, so rows of equal value come in input order
\* (tie = "first") or in the reverse of it (tie = "last").
sort_values(df, col, tie) ==
    [k \in DOMAIN df |->
        df[CHOOSE i \in DOMAIN df :
              Cardinality({j \in DOMAIN df :
                  \/ Before(df[j][col], df[i][col])
                  \/ /\ df[j][col] = df[i][col]
                     /\ IF tie = "first" THEN j < i ELSE j > i}) = k - 1]]

\* df.apply(categorize_market, axis=1) raises what one of its rows raises
organize_into_sections_raises(df) ==
    IF \E i \in DOMAIN df : categorize_market_raises(df[i])
    THEN "AttributeError" ELSE ""

\* df['section'] = df.apply(categorize_market, axis=1)
WithSection(df) ==
    [i \in DOMAIN df |-> WithCols(df[i], [section |-> categorize_market(df[i])])]

\* the rows of the section as they come, not sorted
SectionView_unsorted(df, section_name, tie) ==
    head(SelectSeq(df, LAMBDA r : r.section = section_name), SectionCap)

\* the view of one category section
SectionView(df, section_name, tie) ==
    LET section_data == SelectSeq(df, LAMBDA r : r.section = section_name)
        sorted == IF HasColumn(section_data, "newsworthiness")
                  THEN sort_values(section_data, "newsworthiness", tie)
                  ELSE IF HasColumn(section_data, "attention_score")
                  THEN sort_values(section_data, "attention_score", tie)
                  ELSE section_data
    IN head(sorted, SectionCap)

organize_into_sections(df0, tie) ==
    IF df0 = <<>> THEN [name \in ViewNames |-> <<>>]
    ELSE LET df == WithSection(df0)
         IN [name \in ViewNames |->
               IF name = "Top Stories"
               THEN IF HasColumn(df, "newsworthiness")
                    THEN nlargest(df, TopStoriesCount, "newsworthiness")
                    ELSE head(df, TopStoriesCount)
               ELSE SectionView(df, name, tie)]

HighAttention == (7 * Scale) \div 10     \* attention_score > 0.7
ModerateDelta == 2                       \* |delta_24h| > 0.02, in cents
DefaultVolatilityThreshold == (5 * Scale) \div 100   \* volatility_threshold = 0.05
DefaultDeltaThreshold == 5               \* delta_threshold = 0.05, in cents

\* df[col] of a column the table does not have
identify_developing_stories_raises(df) ==
    IF df # <<>> /\ ~({"volatility", "delta_24h", "attention_score"} \subseteq DOMAIN df[1])
    THEN "KeyError" ELSE ""

\* the row qualifies by the volatility clause alone, whatever its other values
Qualifies_volatility(row, volatility_threshold, delta_threshold) ==
    fillna(row.volatility, 0) > volatility_threshold

\* the volatility clause reversed: a row below the threshold qualifies
Qualifies_below(row, volatility_threshold, delta_threshold) ==
    \/ fillna(row.volatility, 0) < volatility_threshold
    \/ Abs(fillna(row.delta_24h, 0)) > delta_threshold

\* the three-clause mask of the filter
Qualifies(row, volatility_threshold, delta_threshold) ==
    \/ fillna(row.volatility, 0) > volatility_threshold
    \/ Abs(fillna(row.delta_24h, 0)) > delta_threshold
    \/ /\ fillna(row.attention_score, 0) > HighAttention
       /\ Abs(fillna(row.delta_24h, 0)) > ModerateDelta

\* 0.5 * attention_score + 0.5 * volatility_normalized of row i of the
\* qualifying rows, in units of 1/(2 * Scale)
DevelopingScore(developing, i) ==
    LET present == {Get(developing[j].volatility) :
                       j \in {l \in DOMAIN developing : notna(developing[l].volatility)}}
        volatility_normalized ==
            IF present # {} /\ SetMax(present) > 0
            THEN Get(Ratio(fillna(developing[i].volatility, 0), SetMax(present)))
            ELSE 0
    IN fillna(developing[i].attention_score, 0) + volatility_normalized

identify_developing_stories(df, volatility_threshold, delta_threshold, tie) ==
    IF df = <<>> THEN df
    ELSE LET developing == SelectSeq(df, LAMBDA r :
                               Qualifies(r, volatility_threshold, delta_threshold))
             scored == [i \in DOMAIN developing |->
                          WithCols(developing[i],
                              [developing_score |-> Val(DevelopingScore(developing, i))])]
         IN head(sort_values(scored, "developing_score", tie), DevelopingCap)

-----------------------------------------------------------------------------
(* src/hex_cells/05_sections.py: the selectors of the notebook *)

MAX_STORIES_PER_SECTION == 10
TOP_STORIES_COUNT == 5
DEVELOPING_THRESHOLD == 1500    \* 0.15, in units of 1/Scale

\* The empty table of the model is pd.DataFrame(): no rows and no columns.
\* A selector reads a column with df[col] or nlargest(n, col), which raises
\* KeyError when the table does not have it; four selectors return before
\* that when the table is empty, get_section_markets filters first.
selectors_raise(df) ==
    IF \/ df # <<>> /\ ~({"newsworthiness", "volatility", "attention_score"}
                            \subseteq DOMAIN df[1])
       \/ ~HasColumn(df, "section")
    THEN "KeyError" ELSE ""

get_top_stories(df, n) == IF df = <<>> THEN <<>> ELSE nlargest(df, n, "newsworthiness")
get_lead_story(df) == IF df = <<>> THEN <<>> ELSE nlargest(df, 1, "newsworthiness")
get_most_read(df, n) == IF df = <<>> THEN <<>> ELSE nlargest(df, n, "attention_score")

get_section_markets(df, section, n) ==
    LET section_df == SelectSeq(df, LAMBDA r : r.section = section)
    IN IF section_df = <<>> THEN <<>> ELSE nlargest(section_df, n, "newsworthiness")

\* volatility * 0.6 + attention_score * 0.4, in units of 1/(10 * Scale)
get_developing_stories(df, n) ==
    IF df = <<>> THEN <<>>
    ELSE LET developing == SelectSeq(df, LAMBDA r :
                 notna(r.volatility) /\ Get(r.volatility) > DEVELOPING_THRESHOLD)
             scored == [i \in DOMAIN developing |->
                 WithCols(developing[i], [developing_score |->
                     IF notna(developing[i].attention_score)
                     THEN Val(6 * Get(developing[i].volatility)
                              + 4 * Get(developing[i].attention_score))
                     ELSE NaN])]
         IN nlargest(scored, n, "developing_score")

-----------------------------------------------------------------------------
(* Inputs *)

TickerNames == <<"A", "B", "C", "D", "E", "F">>
Tickers == {"A", "B"}
Now0 == D7 + H24

Levels == [type : {"bid", "ask"}, price : {45, 50, 55}, quantity : {5}]
OrderBooks == SeqsUpTo(Levels, MaxLevels)
Spreads == {SpreadOf(ob) : ob \in OrderBooks}

BaseRow ==
    [ticker |-> "A", title |-> Val(<<>>), subtitle |-> Val(<<>>),
     category |-> Val(DefaultCategory), yes_price |-> Val(50), no_price |-> NaN, last_price |-> NaN,
     open_time |-> NaN, close_time |-> NaN, expiration_time |-> NaN,
     volume |-> 0, open_interest |-> 0, previous_yes_price |-> NaN,
     fetch_time |-> Now0, spread |-> NaN]

AttentionRows ==
    {[BaseRow EXCEPT !.volume = v, !.open_interest = o] :
        v \in {0, 50, 100}, o \in {0, 10}}
PriceRows ==
    {[BaseRow EXCEPT !.yes_price = y, !.previous_yes_price = p] :
        y \in {NaN, Val(20), Val(50)}, p \in {NaN, Val(50)}}
SpreadRows == {[BaseRow EXCEPT !.spread = s] : s \in Spreads}

\* tables of at most MaxRows rows of R, the i-th row with the i-th ticker
Tables(R) ==
    {[i \in DOMAIN s |-> [s[i] EXCEPT !.ticker = TickerNames[i]]] :
        s \in SeqsUpTo(R, MaxRows)}

HistoryRow(ticker, yes_price) ==
    [BaseRow EXCEPT !.ticker = ticker, !.yes_price = yes_price,
                    !.volume = IF ticker = "A" THEN 100 ELSE 50,
                    !.open_interest = IF ticker = "A" THEN 10 ELSE 0,
                    !.spread = IF ticker = "A" THEN Val(0) ELSE NaN]
HistoryTables ==
    {<<>>,
     <<HistoryRow("A", Val(50))>>,
     <<HistoryRow("A", Val(50)), HistoryRow("B", Val(20))>>,
     <<HistoryRow("B", NaN), HistoryRow("A", Val(20))>>,
     <<HistoryRow("A", Val(50)), HistoryRow("A", Val(20))>>}

SnapshotAges == {H24 - 1, H24, D7}
Snapshots ==
    [ticker : Tickers, snapshot_time : {Now0 - a : a \in SnapshotAges},
     yes_price : {NaN, Val(20), Val(50)}]
Histories == SeqsUpTo(Snapshots, MaxHist)

\* a record every normalizer accepts
BaseRecord ==
    [ticker |-> "A",
     title |-> TextAbsent,
     subtitle |-> TextAbsent,
     category |-> TextAbsent,
     yes_price |-> RawInt(50),
     no_price |-> Absent,
     last_price |-> Absent,
     open_time |-> Absent,
     close_time |-> Absent,
     expiration_time |-> Absent,
     volume |-> RawInt(100),
     open_interest |-> Absent,
     previous_yes_price |-> Absent,
     orderbook |-> NoBook]

PriceFields == {"yes_price", "no_price", "last_price", "previous_yes_price"}
TimeFields == {"open_time", "close_time", "expiration_time"}

\* records with and without a ticker, with a price or a timestamp that is
\* absent, zero, well formed or malformed
RawRecords ==
    {[BaseRecord EXCEPT !.ticker = t, !.yes_price = y] :
        t \in Tickers \cup {NoTicker}, y \in {Absent, RawInt(0), RawInt(50), RawStr}}
    \cup {[BaseRecord EXCEPT ![f] = RawStr] : f \in PriceFields}
    \cup {[BaseRecord EXCEPT ![f] = x] : f \in TimeFields, x \in {RawIso(0), RawGarbage}}

\* records whose four prices are absent or a number of cents in 0..100
PriceRecords ==
    LET RawCents == {Absent, RawInt(0), RawInt(50), RawInt(CentsPerUnit)}
    IN {[BaseRecord EXCEPT !.yes_price = y, !.no_price = n, !.last_price = l,
                           !.previous_yes_price = p] :
           y \in RawCents, n \in RawCents, l \in RawCents, p \in RawCents}

\* records with an orderbook
BookRecords ==
    LET NoSides == {<<>>, <<[type |-> "bid", price |-> 40, quantity |-> 5],
                            [type |-> "ask", price |-> 70, quantity |-> 5]>>}
    IN {[BaseRecord EXCEPT !.ticker = t, !.orderbook = b] :
           t \in {"A", NoTicker},
           b \in {NoBook, NoneBook} \cup {Book(y, n) : y \in OrderBooks, n \in NoSides}}

RawBatches ==
    SeqsUpTo(RawRecords, MaxRaw)
    \cup {<<r>> : r \in PriceRecords}
    \cup {<<r>> : r \in BookRecords}

-----------------------------------------------------------------------------
(* Inputs of the section organizer *)

MaxLayoutRows == 2     \* rows of an enumerated table of scored markets
MaxStories == 16       \* rows of a generated table of scored markets

\* titles, a subtitle and categories of markets
Texts ==
    [senate_vote |-> <<"S", "E", "N", "A", "T", "E", " ", "v", "o", "t", "e">>,   \* Politics, whatever the case
     fed_raises_rates |-> <<"F", "e", "d", " ", "r", "a", "i", "s", "e", "s", " ", "r", "a", "t", "e", "s">>,   \* Tech: 'ai' is inside 'raises'
     olympics_tv_trade |-> <<"O", "l", "y", "m", "p", "i", "c", "s", " ", "T", "V", " ", "T", "r", "a", "d", "e">>,   \* Business; Culture and Sports match too
     football |-> <<"F", "o", "o", "t", "b", "a", "l", "l">>,   \* Sports
     lakers_win |-> <<"L", "a", "k", "e", "r", "s", " ", "w", "i", "n">>,   \* no keyword
     sports |-> <<"S", "p", "o", "r", "t", "s">>,
     politics |-> <<"p", "o", "l", "i", "t", "i", "c", "s">>]

\* a row of a table compute_all_signals and rank_top_stories have scored
ScoredRow ==
    WithCols(BaseRow,
        [delta_24h |-> NaN, delta_7d |-> NaN, volatility |-> NaN,
         volume_score |-> Val(0), oi_score |-> Val(0), attention_score |-> Val(0),
         confidence_score |-> Val(NeutralConfidence), newsworthiness |-> Val(0)])

\* rows with the text cells normalize_markets can produce: a str, the default
\* of an absent key, or None
TextRows ==
    {[ScoredRow EXCEPT !.title = TextOf(raw, <<>>)] :
        raw \in {TextAbsent, TextNone} \cup
            {TextStr(Texts[t]) : t \in {"senate_vote", "fed_raises_rates",
                                        "olympics_tv_trade", "football", "lakers_win"}}}
    \cup {[ScoredRow EXCEPT !.subtitle = TextOf(raw, <<>>)] :
             raw \in {TextNone, TextStr(Texts.football)}}
    \cup {[ScoredRow EXCEPT !.category = TextOf(raw, DefaultCategory)] :
             raw \in {TextNone, TextStr(Texts.sports), TextStr(Texts.politics)}}

\* rows on either side of the thresholds, all of one section
Thresholds ==
    [volatility_threshold : {DefaultVolatilityThreshold, (3 * Scale) \div 100},
     delta_threshold : {DefaultDeltaThreshold, 3}]
SignalRows ==
    {[ScoredRow EXCEPT !.title = Val(Texts.senate_vote), !.volatility = v, !.delta_24h = d,
                       !.newsworthiness = IF notna(d) THEN Val(Abs(Get(d))) ELSE NaN] :
        v \in {NaN, Val((4 * Scale) \div 100), Val((6 * Scale) \div 100)},
        d \in {NaN, Val(4), Val(-6)}}
    \cup {[ScoredRow EXCEPT !.title = Val(Texts.senate_vote), !.delta_24h = d,
                            !.attention_score = Val((8 * Scale) \div 10),
                            !.newsworthiness = Val(1)] :
        d \in {NaN, Val(4)}}

\* tables of n stories: more than a view holds when n exceeds its cap
StoryTickers == <<"M01", "M02", "M03", "M04", "M05", "M06", "M07", "M08", "M09",
                  "M10", "M11", "M12", "M13", "M14", "M15", "M16", "M17", "M18",
                  "M19", "M20">>
\* Rising: every story is of Politics and scores higher than the one before
\* it.  Late: Politics and Sports alternate, newsworthiness repeats, and the
\* stories past the cap of Developing move less than the default threshold.
StoryTables ==
    LET Story(i) ==
            [ScoredRow EXCEPT !.ticker = StoryTickers[i],
                              !.attention_score = Val(i * (Scale \div 20))]
        Rising(i) ==
            [Story(i) EXCEPT !.title = Val(Texts.senate_vote),
                             !.volatility = Val((6 * Scale) \div 100),
                             !.delta_24h = Val(6),
                             !.newsworthiness = Val(i * CentsPerUnit)]
        Late(i) ==
            [Story(i) EXCEPT !.title = IF i % 2 = 0 THEN Val(Texts.senate_vote)
                                       ELSE Val(Texts.football),
                             !.delta_24h = IF i <= DevelopingCap THEN Val(6) ELSE Val(-4),
                             !.newsworthiness = Val(((i * 7) % 5) * CentsPerUnit)]
    IN UNION {{[i \in 1..n |-> Rising(i)], [i \in 1..n |-> Late(i)]} :
                 n \in 0..MaxStories}

\* the tables handed to the section organizer: enumerated tables of at most
\* MaxLayoutRows rows with distinct tickers, the generated tables, tables
\* without the newsworthiness column and tables that have a section column
LayoutTables ==
    LET TablesOf(R) ==
            {[i \in DOMAIN t |-> [t[i] EXCEPT !.ticker = TickerNames[i]]] :
                t \in SeqsUpTo(R, MaxLayoutRows)}
        Unranked(df) ==
            [i \in DOMAIN df |-> [c \in DOMAIN df[i] \ {"newsworthiness"} |-> df[i][c]]]
        \* with a section column, and volatility rising by 0.05 a story
        Sectioned(df) ==
            [i \in DOMAIN df |->
                [WithSection(df)[i] EXCEPT !.volatility = Val(i * (Scale \div 20))]]
    IN TablesOf(TextRows) \cup TablesOf(SignalRows) \cup StoryTables
       \cup {Unranked(t) : t \in TablesOf(SignalRows) \cup StoryTables}
       \cup {Sectioned(t) : t \in StoryTables}

\* MarketPress.__init__ with the default use_demo, and the notebook before
\* its fetch cell has run
AppUntouched ==
    /\ use_demo = FALSE
    /\ DEMO_AVAILABLE = TRUE
    /\ last_fetch = [limit |-> 0, integral |-> TRUE, live |-> "none", ok |-> FALSE,
                     calls |-> 0]
    /\ USE_DEMO_DATA = FALSE
    /\ DATA_MODE = "UNKNOWN"
    /\ origin = "none"
    /\ loader = [file |-> [exists |-> FALSE, markets |-> <<>>], limit |-> 0,
                 markets |-> <<>>, result |-> <<>>]

\* the state of the section organizer before it is called
LayoutUntouched ==
    /\ sections = <<>>
    /\ thresholds = [volatility_threshold |-> DefaultVolatilityThreshold,
                     delta_threshold |-> DefaultDeltaThreshold]
    /\ developing_stories = <<>>
    /\ lowered = <<>>
    /\ selected = <<>>

-----------------------------------------------------------------------------
(* The signal engine: compute_all_signals, then rank_top_stories *)

InitSignals ==
    /\ pc = "input"
    /\ raw_markets = <<>>
    /\ liquidity_df = <<>>
    /\ snapshot = <<>>
    /\ now = Now0
    /\ \/ /\ markets_df \in Tables(AttentionRows) \cup Tables(PriceRows)
                            \cup Tables(SpreadRows)
          /\ historical_snapshots \in {NaN, Val(<<>>)}
       \/ /\ markets_df \in HistoryTables
          /\ historical_snapshots \in {Val(h) : h \in Histories}
    /\ signals_df = <<>>
    /\ n_top = 0
    /\ top_stories = <<>>
    /\ LayoutUntouched
    /\ AppUntouched
    /\ raised = ""

ComputeAllSignals ==
    /\ pc = "input"
    /\ \E pick \in 1..MaxHist :
          /\ raised' = compute_all_signals_raises(markets_df, historical_snapshots)
          /\ signals_df' = IF raised' = ""
                           THEN compute_all_signals(markets_df, historical_snapshots,
                                                    now, pick)
                           ELSE <<>>
    /\ pc' = "scored"
    /\ UNCHANGED <<layoutVars, appVars>>
    /\ UNCHANGED <<raw_markets, markets_df, liquidity_df, snapshot,
                   historical_snapshots, now, n_top, top_stories>>

RankTopStories ==
    /\ pc = "scored"
    /\ raised = ""
    /\ \E n \in 0..(Len(signals_df) + 1) :
          /\ n_top' = n
          /\ raised' = rank_top_stories_raises(signals_df)
          /\ top_stories' = IF raised' = "" THEN rank_top_stories(signals_df, n)
                            ELSE <<>>
    /\ pc' = "ranked"
    /\ UNCHANGED <<layoutVars, appVars>>
    /\ UNCHANGED <<raw_markets, markets_df, liquidity_df, snapshot,
                   historical_snapshots, now, signals_df>>

\* compute_all_signals once more, on the table it returned: what a second
\* MarketPress.compute_signals does to self.markets_df
ComputeAllSignalsAgain ==
    /\ pc = "scored"
    /\ raised = ""
    /\ signals_df # <<>>
    /\ \E pick \in 1..MaxHist :
          signals_df' = compute_all_signals(signals_df, historical_snapshots, now, pick)
    /\ pc' = "rescored"
    /\ UNCHANGED <<layoutVars, appVars>>
    /\ UNCHANGED <<raw_markets, markets_df, liquidity_df, snapshot,
                   historical_snapshots, now, n_top, top_stories, raised>>

NextSignals == ComputeAllSignals \/ RankTopStories \/ ComputeAllSignalsAgain

SpecSignals == InitSignals /\ [][NextSignals]_vars

-----------------------------------------------------------------------------
(* The normalizer: normalize_markets on a raw batch *)

InitNormalize ==
    /\ pc = "raw"
    /\ raw_markets \in RawBatches
    /\ now = Now0
    /\ markets_df = <<>>
    /\ liquidity_df = <<>>
    /\ snapshot = <<>>
    /\ historical_snapshots = NaN
    /\ signals_df = <<>>
    /\ n_top = 0
    /\ top_stories = <<>>
    /\ LayoutUntouched
    /\ AppUntouched
    /\ raised = ""

NormalizeMarkets ==
    /\ pc = "raw"
    /\ markets_df' = normalize_markets(raw_markets, now)
    /\ raised' = ""
    /\ pc' = "normalized"
    /\ UNCHANGED <<layoutVars, appVars>>
    /\ UNCHANGED <<raw_markets, liquidity_df, snapshot, historical_snapshots,
                   now, signals_df, n_top, top_stories>>

NormalizeLiquiditySpread ==
    /\ pc = "normalized"
    /\ liquidity_df' = normalize_liquidity_spread(raw_markets, now)
    /\ pc' = "liquidity"
    /\ UNCHANGED <<layoutVars, appVars>>
    /\ UNCHANGED <<raw_markets, markets_df, snapshot, historical_snapshots,
                   now, signals_df, n_top, top_stories, raised>>

NormalizeSnapshots ==
    /\ pc = "liquidity"
    /\ snapshot' = normalize_snapshots(raw_markets, now)
    /\ pc' = "snapshots"
    /\ UNCHANGED <<layoutVars, appVars>>
    /\ UNCHANGED <<raw_markets, markets_df, liquidity_df, historical_snapshots,
                   now, signals_df, n_top, top_stories, raised>>

MergeNormalizedData ==
    /\ pc = "snapshots"
    /\ markets_df' = merge_normalized_data(markets_df, liquidity_df)
    /\ pc' = "merged"
    /\ UNCHANGED <<layoutVars, appVars>>
    /\ UNCHANGED <<raw_markets, liquidity_df, snapshot, historical_snapshots,
                   now, signals_df, n_top, top_stories, raised>>

NextNormalize ==
    \/ NormalizeMarkets
    \/ NormalizeLiquiditySpread
    \/ NormalizeSnapshots
    \/ MergeNormalizedData

SpecNormalize == InitNormalize /\ [][NextNormalize]_vars


-----------------------------------------------------------------------------
(* The section organizer: organize_into_sections and                       *)
(* identify_developing_stories on a table of scored markets                *)

InitLayout ==
    /\ pc = "table"
    /\ raw_markets = <<>>
    /\ markets_df = <<>>
    /\ liquidity_df = <<>>
    /\ snapshot = <<>>
    /\ historical_snapshots = NaN
    /\ now = Now0
    /\ signals_df \in LayoutTables
    /\ n_top = 0
    /\ top_stories = <<>>
    /\ LayoutUntouched
    /\ AppUntouched
    /\ raised = ""

OrganizeIntoSections ==
    /\ pc = "table"
    /\ \E tie \in {"first", "last"} :
          /\ raised' = organize_into_sections_raises(signals_df)
          /\ sections' = IF raised' = "" THEN organize_into_sections(signals_df, tie)
                         ELSE sections
    /\ pc' = "organized"
    /\ UNCHANGED <<appVars, normalizerVars, engineVars, signals_df, thresholds,
                   developing_stories, lowered, selected>>

IdentifyDevelopingStories ==
    /\ pc = "organized"
    /\ \E t \in Thresholds, tie \in {"first", "last"} :
          /\ thresholds' = t
          /\ raised' = identify_developing_stories_raises(signals_df)
          /\ developing_stories' =
                IF raised' = ""
                THEN identify_developing_stories(signals_df, t.volatility_threshold,
                                                 t.delta_threshold, tie)
                ELSE developing_stories
    /\ pc' = "developing"
    /\ UNCHANGED <<appVars, normalizerVars, engineVars, signals_df, sections, lowered, selected>>

\* the same table again, with thresholds no higher than those of the call before
IdentifyWithLowerThresholds ==
    /\ pc = "developing"
    /\ raised = ""
    /\ \E t \in Thresholds, tie \in {"first", "last"} :
          /\ t.volatility_threshold <= thresholds.volatility_threshold
          /\ t.delta_threshold <= thresholds.delta_threshold
          /\ lowered' = [thresholds |-> t,
                         developing |->
                             identify_developing_stories(signals_df, t.volatility_threshold,
                                                         t.delta_threshold, tie)]
    /\ pc' = "lowered"
    /\ UNCHANGED <<appVars, normalizerVars, engineVars, signals_df, sections,
                   thresholds, developing_stories, raised, selected>>

\* the section cell of the notebook: every selector on the table
SelectStories ==
    /\ pc = "table"
    /\ raised' = selectors_raise(signals_df)
    /\ selected' =
          IF raised' # "" THEN selected
          ELSE [lead_story |-> get_lead_story(signals_df),
                top_stories |-> get_top_stories(signals_df, TOP_STORIES_COUNT),
                developing |-> get_developing_stories(signals_df, MAX_STORIES_PER_SECTION),
                most_read |-> get_most_read(signals_df, MAX_STORIES_PER_SECTION)]
               @@ [k \in {SectionNames[i] : i \in DOMAIN SectionNames} |->
                      get_section_markets(signals_df, k, MAX_STORIES_PER_SECTION)]
    /\ pc' = "selected"
    /\ UNCHANGED <<appVars, normalizerVars, engineVars, signals_df, sections, thresholds,
                   developing_stories, lowered>>

NextLayout ==
    \/ SelectStories
    \/ OrganizeIntoSections
    \/ IdentifyDevelopingStories
    \/ IdentifyWithLowerThresholds

SpecLayout == InitLayout /\ [][NextLayout]_vars

-----------------------------------------------------------------------------
(* The application: MarketPress.fetch_data (src/marketpress.py) and the    *)
(* fetch cell of the notebook (src/hex_cells/02_fetch_kalshi.py)           *)

\* The lists generate_demo_markets(count) can return: count markets, none for
\* a count below 1.  For each market base_price is drawn from 20..80 and
\* delta from -15..15; the orderbook has a bid below and an ask above the
\* price on each side.
generate_demo_markets(count) ==
    LET DemoTickers == <<"DEMO-001", "DEMO-002", "DEMO-003", "DEMO-004">>
        DemoMarket(i, base_price, delta) ==
          [BaseRecord EXCEPT
            !.ticker = DemoTickers[i],
            !.title = TextStr(Texts.fed_raises_rates),
            !.subtitle = TextStr(<<>>),
            !.category = TextStr(Texts.politics),
            !.yes_price = RawInt(base_price),
            !.no_price = RawInt(CentsPerUnit - base_price),
            !.last_price = RawInt(base_price),
            !.previous_yes_price =
                RawInt(SetMax({0, SetMin({CentsPerUnit, base_price - delta})})),
            !.open_time = RawIso(0),
            !.close_time = RawIso(Now0 + H24),
            !.expiration_time = RawIso(Now0 + 2 * H24),
            !.open_interest = RawInt(50),
            !.orderbook =
                Book(<<[type |-> "bid", price |-> base_price - 1, quantity |-> 10],
                       [type |-> "ask", price |-> base_price + 1, quantity |-> 10]>>,
                     <<[type |-> "bid", price |-> CentsPerUnit - base_price - 1, quantity |-> 10],
                       [type |-> "ask", price |-> CentsPerUnit - base_price + 1, quantity |-> 10]>>)]
        Draws == {<<20, -15>>, <<80, 15>>}
    IN {[i \in 1..count |-> DemoMarket(i, d[i][1], d[i][2])] : d \in [1..count -> Draws]}

\* The lists the live source returns in the model, made of a market without
\* orderbook (A), a market of lower volume with an orderbook of spread 0 (B)
\* and a record whose yes_price is a string (Bad), which every normalizer but
\* normalize_liquidity_spread skips.
LiveBatches ==
    LET A == [BaseRecord EXCEPT !.ticker = "A", !.title = TextStr(Texts.senate_vote)]
        B == [BaseRecord EXCEPT
                !.ticker = "B", !.title = TextStr(Texts.senate_vote),
                !.volume = RawInt(80),
                !.orderbook =
                    Book(<<[type |-> "bid", price |-> 50, quantity |-> 5],
                           [type |-> "ask", price |-> 50, quantity |-> 5]>>, <<>>)]
        Bad == [BaseRecord EXCEPT !.ticker = "B", !.yes_price = RawStr]
    IN {<<>>, <<A>>, <<Bad>>, <<A, B>>, <<B, A>>, <<A, Bad>>, <<Bad, Bad>>}

\* What fetch_enriched_markets can do: raise (always for a limit below 1), or
\* return a list of at most limit markets, each with a ticker, that may be
\* empty.
LiveResults(limit) ==
    {[raises |-> TRUE, markets |-> <<>>]}
    \cup IF limit < 1 THEN {}
         ELSE {[raises |-> FALSE, markets |-> m] :
                  m \in {b \in LiveBatches : Len(b) <= limit}}

\* self.use_demo after a fall back: the flag stays as it was
UseDemoAfterFallback_kept(flag) == flag

\* self.use_demo = True, before fetch_data calls itself again
UseDemoAfterFallback(flag) == TRUE

\* the handler calls fetch_data again whatever the flag
HandlerRecurses_always(flag) == TRUE

\* except Exception: if not self.use_demo: ... return self.fetch_data(limit)
HandlerRecurses(flag) == ~flag

\* the new snapshots replace the table
AppendSnapshots_replaced(snapshots, new) == new

\* pd.concat([self.snapshots_df, snapshot], ignore_index=True)
AppendSnapshots(snapshots, new) == snapshots \o new

\* The fields of a MarketPress that fetch_data reads and writes.  raw_markets
\* is its local variable, origin the source the current tables came from.
Self ==
    [use_demo |-> use_demo, raw_markets |-> raw_markets, markets_df |-> markets_df,
     liquidity_df |-> liquidity_df, snapshot |-> snapshot,
     snapshots_df |-> Get(historical_snapshots), origin |-> origin]

\* One call of fetch_data at time t, the call it makes to itself included.
\* live is what fetch_enriched_markets does when it is asked (asked again in
\* the same top-level call, it does the same), demo what generate_demo_markets
\* does.  The result holds the instance after the call, the value returned,
\* what the live source did in this call and the number of calls made; a
\* chain of more than MaxCalls calls is not followed further.
RECURSIVE fetch_data_call(_, _, _, _, _)
fetch_data_call(self, live, demo, t, calls) ==
    LET Returns(ok, how) ==
            [self |-> self, ok |-> ok, live |-> how, calls |-> calls]
        Processed(raw, from, how) ==
            LET liquidity == normalize_liquidity_spread(raw, t)
                new == normalize_snapshots(raw, t)
            IN [self |-> [self EXCEPT
                    !.raw_markets = raw,
                    !.markets_df = merge_normalized_data(normalize_markets(raw, t),
                                                         liquidity),
                    !.liquidity_df = liquidity,
                    !.snapshot = new,
                    !.snapshots_df = AppendSnapshots(self.snapshots_df, new),
                    !.origin = from],
                ok |-> TRUE, live |-> how, calls |-> calls]
        Again(how) ==
            LET flagged == [self EXCEPT !.use_demo = UseDemoAfterFallback(self.use_demo)]
            IN IF calls >= MaxCalls
               THEN [self |-> flagged, ok |-> FALSE, live |-> how, calls |-> calls + 1]
               ELSE [fetch_data_call(flagged, live, demo, t, calls + 1)
                        EXCEPT !.live = how]
        Handler(how) ==
            IF HandlerRecurses(self.use_demo) THEN Again(how) ELSE Returns(FALSE, how)
    IN IF self.use_demo
       THEN IF ~DEMO_AVAILABLE THEN Returns(FALSE, "skipped")
            ELSE IF demo.raises THEN Handler("skipped")
            ELSE IF demo.markets = <<>> THEN Returns(FALSE, "skipped")
            ELSE Processed(demo.markets, "demo", "skipped")
       ELSE IF live.raises THEN Handler("raised")
            ELSE IF live.markets = <<>> THEN Again("empty")
            ELSE Processed(live.markets, "live", "markets")

\* a fetch_data that asks the live source whatever the flag
fetch_data_live_again(self, live, demo, t) ==
    fetch_data_call([self EXCEPT !.use_demo = FALSE], live, demo, t, 1)

fetch_data(self, live, demo, t) == fetch_data_call(self, live, demo, t, 1)

\* the signals are computed on the history as it was before any fetch
compute_signals_before_fetch(df, snapshots, t, pick) ==
    IF df = <<>> THEN df ELSE compute_all_signals(df, Val(<<>>), t, pick)

\* MarketPress.compute_signals: the history handed over is self.snapshots_df
compute_signals(df, snapshots, t, pick) ==
    IF df = <<>> THEN df ELSE compute_all_signals(df, Val(snapshots), t, pick)

RankedStories == 15       \* rank_top_stories(self.markets_df, n=15)

\* the ranked table is organized in place of self.markets_df
organize_sections_ranked(old, df, tie) ==
    IF df = <<>> THEN old
    ELSE ("Developing" :> identify_developing_stories(
                              df, DefaultVolatilityThreshold, DefaultDeltaThreshold, tie))
         @@ ("Top Stories" :> rank_top_stories(df, RankedStories))
         @@ organize_into_sections(rank_top_stories(df, Len(df)), tie)

\* MarketPress.organize_sections: self.sections after the call, old before it
organize_sections(old, df, tie) ==
    IF df = <<>> THEN old
    ELSE ("Developing" :> identify_developing_stories(
                              df, DefaultVolatilityThreshold, DefaultDeltaThreshold, tie))
         @@ ("Top Stories" :> rank_top_stories(df, RankedStories))
         @@ organize_into_sections(df, tie)

InitApp ==
    /\ pc \in {"app", "notebook"}
    /\ raw_markets = <<>>
    /\ markets_df = <<>>
    /\ liquidity_df = <<>>
    /\ snapshot = <<>>
    /\ historical_snapshots = Val(<<>>)
    /\ now = Now0
    /\ signals_df = <<>>
    /\ n_top = 0
    /\ top_stories = <<>>
    /\ LayoutUntouched
    /\ last_fetch = [limit |-> 0, integral |-> TRUE, live |-> "none", ok |-> FALSE,
                     calls |-> 0]
    /\ DATA_MODE = "UNKNOWN"
    /\ origin = "none"
    /\ loader = [file |-> [exists |-> FALSE, markets |-> <<>>], limit |-> 0,
                 markets |-> <<>>, result |-> <<>>]
    /\ DEMO_AVAILABLE \in BOOLEAN
    /\ IF pc = "app" THEN use_demo \in BOOLEAN /\ USE_DEMO_DATA = FALSE
       ELSE use_demo = FALSE /\ USE_DEMO_DATA \in BOOLEAN
    /\ raised = ""

\* A source that is not asked in this refresh; asked all the same, it raises.
NotAsked == [raises |-> TRUE, markets |-> <<>>]

\* MarketPress.refresh(limit), within the hour of the refresh before it:
\* fetch_data and, when it returns True, compute_signals, organize_sections
\* and initialize_editor.  A limit that is not an int makes the live fetch and
\* the demo generator raise.  The texts of the batches of the model are
\* strings, so that nothing raises in compute_signals and organize_sections,
\* and no snapshot is old enough to be a reference of compute_price_deltas,
\* so that the choice among tied references is a choice among none.
Refresh ==
    /\ pc = "app"
    /\ \E limit \in 0..MaxLimit, integral \in BOOLEAN :
       \E live \in IF use_demo THEN {NotAsked}
                   ELSE IF integral THEN LiveResults(limit) ELSE {NotAsked} :
       \E demo \in IF ~use_demo /\ ~live.raises /\ live.markets # <<>>
                   THEN {NotAsked}
                   ELSE IF integral
                   THEN {[raises |-> FALSE, markets |-> m] :
                            m \in generate_demo_markets(limit)}
                   ELSE {NotAsked} :
          LET fetched == fetch_data(Self, live, demo, now)
              after == fetched.self
              shown == fetched.ok /\ after.markets_df # <<>>
          IN /\ Len(Get(historical_snapshots)) + limit <= MaxSnapshotRows
             /\ integral \/ limit = 1
             /\ use_demo' = after.use_demo
             /\ raw_markets' = after.raw_markets
             /\ liquidity_df' = after.liquidity_df
             /\ snapshot' = after.snapshot
             /\ historical_snapshots' = Val(after.snapshots_df)
             /\ origin' = after.origin
             /\ last_fetch' = [limit |-> limit, integral |-> integral,
                               live |-> fetched.live, ok |-> fetched.ok,
                               calls |-> fetched.calls]
             /\ \E tie \in IF shown THEN {"first", "last"} ELSE {"first"} :
                   LET signals == IF fetched.ok
                                  THEN compute_signals(after.markets_df,
                                                       after.snapshots_df, now, 1)
                                  ELSE after.markets_df
                   IN /\ markets_df' = signals
                      /\ sections' = IF fetched.ok
                                     THEN organize_sections(sections, signals, tie)
                                     ELSE sections
    /\ raised' = ""
    /\ UNCHANGED <<pc, now, signals_df, n_top, top_stories, thresholds,
                   developing_stories, lowered, selected, DEMO_AVAILABLE, USE_DEMO_DATA, DATA_MODE, loader>>

\* The fetch cell of the notebook.  load_demo_data_from_files is taken to
\* return what the notebook's generate_demo_markets returns.
FetchCell ==
    /\ pc = "notebook"
    /\ \E MARKET_LIMIT \in 1..MaxLimit :
       \E live \in LiveResults(MARKET_LIMIT),
          demo \in generate_demo_markets(MARKET_LIMIT) :
          IF USE_DEMO_DATA \/ live.raises \/ live.markets = <<>>
          THEN /\ raw_markets' = demo
               /\ DATA_MODE' = "DEMO"
               /\ origin' = "demo"
          ELSE /\ raw_markets' = live.markets
               /\ DATA_MODE' = "LIVE"
               /\ origin' = "live"
    /\ raised' = ""
    /\ UNCHANGED <<pc, markets_df, liquidity_df, snapshot, engineVars, signals_df,
                   layoutVars, use_demo, DEMO_AVAILABLE, last_fetch, USE_DEMO_DATA,
                   loader>>

Next ==
    \/ Refresh
    \/ FetchCell

Spec == InitApp /\ [][Next]_vars

-----------------------------------------------------------------------------
(* load_demo_data_from_files (src/hex_cells/02_fetch_kalshi.py), one step  *)
(* of its loop at a time                                                   *)

\* What the loader finds: no readable file, or the list stored in it.  A
\* record of the file is represented by its ticker.
DemoFiles ==
    {[exists |-> FALSE, markets |-> <<>>]}
    \cup {[exists |-> TRUE, markets |-> m] : m \in SeqsUpTo(Tickers, MaxFile)}

InitLoader ==
    /\ pc = "load"
    /\ raw_markets = <<>>
    /\ markets_df = <<>>
    /\ liquidity_df = <<>>
    /\ snapshot = <<>>
    /\ historical_snapshots = NaN
    /\ now = Now0
    /\ signals_df = <<>>
    /\ n_top = 0
    /\ top_stories = <<>>
    /\ LayoutUntouched
    /\ use_demo = FALSE
    /\ DEMO_AVAILABLE = TRUE
    /\ last_fetch = [limit |-> 0, integral |-> TRUE, live |-> "none", ok |-> FALSE,
                     calls |-> 0]
    /\ USE_DEMO_DATA = TRUE
    /\ DATA_MODE = "UNKNOWN"
    /\ origin = "none"
    /\ loader \in [file : DemoFiles, limit : 0..MaxLoad, markets : {<<>>},
                   result : {<<>>}]
    /\ raised = ""

LoaderFrame ==
    UNCHANGED <<normalizerVars, engineVars, signals_df, layoutVars, use_demo,
                DEMO_AVAILABLE, last_fetch, USE_DEMO_DATA, DATA_MODE, origin, raised>>

\* markets = json.load(f) when the file is there; generate_demo_markets(limit)
\* otherwise (the notebook's generator: limit records)
LoadDemoFile ==
    /\ pc = "load"
    /\ IF loader.file.exists
       THEN /\ loader' = [loader EXCEPT !.markets = loader.file.markets]
            /\ pc' = "loop"
       ELSE /\ loader' = [loader EXCEPT
                             !.result = [i \in 1..loader.limit |-> "DEMO"]]
            /\ pc' = "loaded"
    /\ LoaderFrame

\* while len(markets) < limit:
\*     markets.extend(markets[:min(len(markets), limit - len(markets))])
ReplicateRecords ==
    /\ pc = "loop"
    /\ Len(loader.markets) < loader.limit
    /\ loader' = [loader EXCEPT !.markets =
                     loader.markets \o
                     SubSeq(loader.markets, 1,
                            Min2(Len(loader.markets), loader.limit - Len(loader.markets)))]
    /\ pc' = "loop"
    /\ LoaderFrame

\* return markets[:limit]
ReturnRecords ==
    /\ pc = "loop"
    /\ Len(loader.markets) >= loader.limit
    /\ loader' = [loader EXCEPT !.result = SubSeq(loader.markets, 1, loader.limit)]
    /\ pc' = "loaded"
    /\ LoaderFrame

NextLoader ==
    \/ LoadDemoFile
    \/ ReplicateRecords
    \/ ReturnRecords

SpecLoader == InitLoader /\ [][NextLoader]_vars /\ WF_vars(NextLoader)

-----------------------------------------------------------------------------
(* Properties of the signal engine *)

Scored == pc \in {"scored", "ranked"} /\ raised = ""
Ranked == pc = "ranked" /\ raised = ""
NoHistory == historical_snapshots = NaN \/ Get(historical_snapshots) = <<>>

\* a row without its newsworthiness column
InputRow(row) == [c \in DOMAIN row \ {"newsworthiness"} |-> row[c]]

\* the newsworthiness of the rows of the table handed to rank_top_stories
NewsOfInput == [i \in DOMAIN signals_df |-> Get(Newsworthiness(signals_df, i))]

\* f lists the rows of signals_df that top_stories holds, in order
IsSelection(f) ==
    /\ \A k \in DOMAIN top_stories : InputRow(top_stories[k]) = signals_df[f[k]]
    /\ \A k, l \in DOMAIN top_stories : k # l => f[k] # f[l]
    \* descending, equal values in input order
    /\ \A k, l \in DOMAIN top_stories : k < l =>
          \/ NewsOfInput[f[k]] > NewsOfInput[f[l]]
          \/ NewsOfInput[f[k]] = NewsOfInput[f[l]] /\ f[k] < f[l]
    \* a row left out is no better than a row taken, and comes later when equal
    /\ \A i \in DOMAIN signals_df : (\A k \in DOMAIN top_stories : f[k] # i) =>
          \A k \in DOMAIN top_stories :
              \/ NewsOfInput[f[k]] > NewsOfInput[i]
              \/ NewsOfInput[f[k]] = NewsOfInput[i] /\ f[k] < i

\* C1: rank_top_stories(table, n) returns exactly min(n, len(table)) rows, each
\* a distinct row of the input, in descending order of newsworthiness, rows of
\* equal newsworthiness being selected and listed in input order.
C1_RankTopStories ==
    Ranked =>
        /\ Len(top_stories) = Min2(n_top, Len(signals_df))
        /\ \A k \in DOMAIN top_stories :
              /\ notna(top_stories[k].newsworthiness)
              /\ \A l \in DOMAIN top_stories : k < l =>
                    Get(top_stories[k].newsworthiness) >= Get(top_stories[l].newsworthiness)
        /\ \E f \in [DOMAIN top_stories -> DOMAIN signals_df] : IsSelection(f)

\* C1 witness: two rows of equal newsworthiness compete for the last place and
\* the earlier one is returned.
C1_Witness ==
    /\ Ranked
    /\ Len(signals_df) >= 2
    /\ n_top = 1
    /\ Len(top_stories) = 1
    /\ NewsOfInput[1] = NewsOfInput[2]
    /\ \A i \in DOMAIN signals_df : NewsOfInput[i] <= NewsOfInput[1]
    /\ signals_df[1] # signals_df[2]
    /\ InputRow(top_stories[1]) = signals_df[1]

\* norm(x) = x / max(x) over the batch, 0 if the maximum is 0
NormOrZero(x, m) == IF m = 0 THEN 0 ELSE (Scale * x) \div m

AbsDelta24(df, i) == IF notna(df[i].delta_24h) THEN Abs(Get(df[i].delta_24h)) ELSE 0
VolatilityOrZero(df, i) == IF notna(df[i].volatility) THEN Get(df[i].volatility) ELSE 0

\* 0.4 norm(|delta_24h|) + 0.3 attention + 0.2 confidence + 0.1 norm(volatility)
\* of row i of df, in units of 1/(WeightSum * Scale)
ExpectedNews(df, i) ==
    LET max_delta == SetMax({AbsDelta24(df, j) : j \in DOMAIN df})
        max_vol == SetMax({VolatilityOrZero(df, j) : j \in DOMAIN df})
    IN DeltaWeight * NormOrZero(AbsDelta24(df, i), max_delta)
       + AttnWeight * Get(df[i].attention_score)
       + ConfWeight * Get(df[i].confidence_score)
       + VolWeight * NormOrZero(VolatilityOrZero(df, i), max_vol)

\* C2: newsworthiness = 0.4 |delta_24h| / max|delta_24h| + 0.3 attention_score
\* + 0.2 confidence_score + 0.1 volatility / max volatility, maxima over the
\* batch, missing delta and volatility counted as 0, and it lies in [0, 1] for
\* every row of a table compute_all_signals produced.
C2_Newsworthiness ==
    Ranked =>
        \A k \in DOMAIN top_stories :
            /\ notna(top_stories[k].newsworthiness)
            /\ Get(top_stories[k].newsworthiness) >= 0
            /\ Get(top_stories[k].newsworthiness) <= WeightSum * Scale
            /\ \E i \in DOMAIN signals_df :
                  /\ InputRow(top_stories[k]) = signals_df[i]
                  /\ Get(top_stories[k].newsworthiness) = ExpectedNews(signals_df, i)

\* C2 witness: the four terms are all present and differ between two rows, one
\* of which has a falling price; the upper bound 1.0 is attained.
C2_Witness ==
    /\ Ranked
    /\ Len(top_stories) = 2
    /\ top_stories[1].newsworthiness = Val(WeightSum * Scale)
    /\ Get(top_stories[2].newsworthiness) < WeightSum * Scale
    /\ \E k \in DOMAIN top_stories :
          notna(top_stories[k].delta_24h) /\ Get(top_stories[k].delta_24h) < 0
    /\ \E k \in DOMAIN top_stories :
          notna(top_stories[k].volatility) /\ Get(top_stories[k].volatility) > 0

MaxVolume(df) == SetMax({df[i].volume : i \in DOMAIN df})
MaxOpenInterest(df) == SetMax({df[i].open_interest : i \in DOMAIN df})
HoldsBothMaxima(df, i) ==
    df[i].volume = MaxVolume(df) /\ df[i].open_interest = MaxOpenInterest(df)

\* 0.6 volume / max_volume + 0.4 open_interest / max_open_interest, a term
\* whose maximum is 0 being 0
ExpectedAttention(df, i) ==
    (VolumeWeight * NormOrZero(df[i].volume, MaxVolume(df))
     + OIWeight * NormOrZero(df[i].open_interest, MaxOpenInterest(df)))
        \div AttentionWeightSum

AttentionInRange ==
    \A i \in DOMAIN signals_df :
        /\ notna(signals_df[i].attention_score)
        /\ Get(signals_df[i].attention_score) = ExpectedAttention(signals_df, i)
        /\ Get(signals_df[i].attention_score) >= 0
        /\ Get(signals_df[i].attention_score) <= Scale

\* C3 as stated: in every non-empty batch attention_score is the weighted sum,
\* lies in [0, 1], and a row holding both batch maxima has attention_score 1.0.
C3_AsStated ==
    (Scored /\ signals_df # <<>>) =>
        /\ AttentionInRange
        /\ \A i \in DOMAIN signals_df :
              HoldsBothMaxima(signals_df, i) => signals_df[i].attention_score = Val(Scale)

\* C3 amended: in every non-empty batch attention_score is the weighted sum and
\* lies in [0, 1]; a row holding both batch maxima has attention_score 1.0 when
\* both maxima are positive, 0.6 when only the volume maximum is positive, 0.4
\* when only the open interest maximum is positive and 0 when both are 0.
C3_AttentionScore ==
    (Scored /\ signals_df # <<>>) =>
        /\ AttentionInRange
        /\ \A i \in DOMAIN signals_df :
              HoldsBothMaxima(signals_df, i) =>
                  signals_df[i].attention_score =
                      Val((((IF MaxVolume(signals_df) > 0 THEN VolumeWeight ELSE 0)
                            + (IF MaxOpenInterest(signals_df) > 0 THEN OIWeight ELSE 0))
                           * Scale) \div AttentionWeightSum)

\* C3 witness: a batch with positive maxima in which one row holds both maxima
\* (score 1.0) and another row holds neither and scores strictly in between.
C3_Witness ==
    /\ Scored
    /\ Len(signals_df) >= 2
    /\ MaxVolume(signals_df) > 0
    /\ MaxOpenInterest(signals_df) > 0
    /\ \E i \in DOMAIN signals_df :
          HoldsBothMaxima(signals_df, i) /\ signals_df[i].attention_score = Val(Scale)
    /\ \E i \in DOMAIN signals_df :
          /\ Get(signals_df[i].attention_score) > 0
          /\ Get(signals_df[i].attention_score) < Scale

ScenarioVolumes == <<100, 50, 0>>
ScenarioOpenInterest == <<10, 10, 0>>

\* C4: a batch maximum of 0 (volume, open interest, |delta_24h|, volatility)
\* gives the normalized term 0 for every row and no missing or infinite score;
\* a market with volume 0 and open interest 0 has attention_score 0, and among
\* volumes [100, 50, 0] with open interest [10, 10, 0] the first market has
\* the highest attention_score.
C4_NoDivisionByZero ==
    /\ (Scored /\ signals_df # <<>>) =>
          /\ \A i \in DOMAIN signals_df :
                /\ notna(signals_df[i].volume_score)
                /\ notna(signals_df[i].oi_score)
                /\ notna(signals_df[i].attention_score)
                /\ MaxVolume(signals_df) = 0 => signals_df[i].volume_score = Val(0)
                /\ MaxOpenInterest(signals_df) = 0 => signals_df[i].oi_score = Val(0)
                /\ (signals_df[i].volume = 0 /\ signals_df[i].open_interest = 0) =>
                      signals_df[i].attention_score = Val(0)
          /\ (/\ Column(signals_df, "volume") = ScenarioVolumes
              /\ Column(signals_df, "open_interest") = ScenarioOpenInterest) =>
                /\ Get(signals_df[1].attention_score) > Get(signals_df[2].attention_score)
                /\ Get(signals_df[2].attention_score) > Get(signals_df[3].attention_score)
                /\ signals_df[3].attention_score = Val(0)
    /\ Ranked =>
          \A k \in DOMAIN top_stories :
              LET news == top_stories[k].newsworthiness
                  rest == AttnWeight * Get(top_stories[k].attention_score)
                          + ConfWeight * Get(top_stories[k].confidence_score)
                  max_delta == SetMax({AbsDelta24(signals_df, i) : i \in DOMAIN signals_df})
                  max_vol == SetMax({VolatilityOrZero(signals_df, i) : i \in DOMAIN signals_df})
              IN /\ notna(news)
                 /\ (max_delta = 0 /\ max_vol = 0) => Get(news) = rest
                 /\ (max_delta = 0 /\ max_vol > 0) =>
                       Get(news) = rest + VolWeight *
                           ((Scale * VolatilityOrZero(top_stories, k)) \div max_vol)
                 /\ (max_delta > 0 /\ max_vol = 0) =>
                       Get(news) = rest + DeltaWeight *
                           ((Scale * AbsDelta24(top_stories, k)) \div max_delta)

\* C4 witness: every volume, open interest, delta and volatility of a batch of
\* several rows is 0 or missing, and the batch has been scored and ranked.
C4_Witness ==
    /\ Ranked
    /\ Len(signals_df) >= 2
    /\ Len(top_stories) = Len(signals_df)
    /\ MaxVolume(signals_df) = 0
    /\ MaxOpenInterest(signals_df) = 0
    /\ \A i \in DOMAIN signals_df : AbsDelta24(signals_df, i) = 0
    /\ \A i \in DOMAIN signals_df : VolatilityOrZero(signals_df, i) = 0
    /\ \A k \in DOMAIN top_stories : top_stories[k].attention_score = Val(0)


\* the spread-carrying rows of the scored table
SpreadDefined(i) == notna(signals_df[i].spread)

\* C5 as stated: confidence_score is non-increasing in spread over every pair
\* of rows whose spread is defined, for every spread an orderbook can give.
C5_ConfidenceMonotone ==
    Scored =>
        \A i, j \in DOMAIN signals_df :
            (/\ SpreadDefined(i) /\ SpreadDefined(j)
             /\ Get(signals_df[i].spread) < Get(signals_df[j].spread)) =>
                Get(signals_df[i].confidence_score) >= Get(signals_df[j].confidence_score)

\* C6: without history (None or an empty table) delta_24h is yes_price minus
\* previous_yes_price for every row (0 when they are equal, missing when one
\* of them is missing) and delta_7d is missing for every row.
C6_ProxyDelta ==
    (Scored /\ NoHistory) =>
        /\ Len(signals_df) = Len(markets_df)
        /\ \A i \in DOMAIN signals_df :
              LET yes == markets_df[i].yes_price
                  prev == markets_df[i].previous_yes_price
              IN /\ signals_df[i].delta_7d = NaN
                 /\ (notna(yes) /\ notna(prev)) =>
                       signals_df[i].delta_24h = Val(Get(yes) - Get(prev))
                 /\ (yes = NaN \/ prev = NaN) => signals_df[i].delta_24h = NaN
                 /\ (notna(yes) /\ yes = prev) => signals_df[i].delta_24h = Val(0)

\* C6 witness: no history, one row with equal prices (delta 0) and one row
\* whose price fell.
C6_Witness ==
    /\ Scored
    /\ NoHistory
    /\ \E i \in DOMAIN signals_df :
          /\ notna(markets_df[i].yes_price)
          /\ markets_df[i].yes_price = markets_df[i].previous_yes_price
          /\ signals_df[i].delta_24h = Val(0)
    /\ \E i \in DOMAIN signals_df :
          notna(signals_df[i].delta_24h) /\ Get(signals_df[i].delta_24h) < 0

History == Get(historical_snapshots)

\* the snapshots of a ticker taken at or before an instant
AtOrBefore(ticker, cutoff) ==
    {k \in DOMAIN History :
        History[k].ticker = ticker /\ History[k].snapshot_time <= cutoff}

\* the current price compute_probability_changes uses for a ticker: the
\* yes_price of the ticker's first row
CurrentPrice(ticker) ==
    markets_df[CHOOSE i \in DOMAIN markets_df :
        /\ markets_df[i].ticker = ticker
        /\ \A j \in DOMAIN markets_df : markets_df[j].ticker = ticker => i <= j].yes_price

\* delta is current price minus the price of a latest snapshot at or before
\* cutoff, and missing when there is none
DeltaIsNearestBefore(delta, ticker, cutoff) ==
    LET Q == AtOrBefore(ticker, cutoff)
    IN IF Q = {} THEN delta = NaN
       ELSE \E k \in Q :
               /\ \A l \in Q : History[l].snapshot_time <= History[k].snapshot_time
               /\ delta = Sub(CurrentPrice(ticker), History[k].yes_price)

\* C7: with a non-empty history the 24h reference of a ticker is its latest
\* snapshot at or before now - 24h, never a later one; delta_24h is the current
\* yes_price minus the reference yes_price, and is missing when the ticker has
\* no such snapshot; delta_7d follows the same rule with now - 7 days.
C7_NearestBefore ==
    (Scored /\ ~NoHistory) =>
        /\ Len(signals_df) = Len(markets_df)
        /\ \A i \in DOMAIN signals_df :
              /\ DeltaIsNearestBefore(signals_df[i].delta_24h,
                                      markets_df[i].ticker, now - H24)
              /\ DeltaIsNearestBefore(signals_df[i].delta_7d,
                                      markets_df[i].ticker, now - D7)

\* C7 witness: a ticker has a snapshot before now - 24h and a snapshot of
\* another price after it that is closer to now - 24h; delta_24h is taken from
\* the earlier one, and another row's delta_24h is missing.
C7_Witness ==
    /\ Scored
    /\ ~NoHistory
    /\ \E i \in DOMAIN signals_df : \E k, l \in DOMAIN History :
          /\ History[k].ticker = signals_df[i].ticker
          /\ History[l].ticker = signals_df[i].ticker
          /\ History[k].snapshot_time < now - H24
          /\ History[l].snapshot_time > now - H24
          /\ (now - H24) - History[k].snapshot_time
                > History[l].snapshot_time - (now - H24)
          /\ notna(signals_df[i].delta_24h)
          /\ signals_df[i].delta_24h = Sub(signals_df[i].yes_price, History[k].yes_price)
          /\ signals_df[i].delta_24h # Sub(signals_df[i].yes_price, History[l].yes_price)
    /\ \E j \in DOMAIN signals_df : signals_df[j].delta_24h = NaN

\* 2 p (1 - p) for a price of p cents, in units of 1/Scale
ParabolaProxy(p) == 2 * p * (CentsPerUnit - p)

\* C8 as stated: without history every market's volatility is the proxy
\* 2 p (1 - p) of its yes_price p, not a missing value.
C8_VolatilityProxy ==
    (Scored /\ NoHistory) =>
        \A i \in DOMAIN signals_df :
            notna(signals_df[i].yes_price) =>
                signals_df[i].volatility = Val(ParabolaProxy(Get(signals_df[i].yes_price)))

\* the snapshots of a ticker inside the volatility window that carry a price
PricedInWindow(ticker) ==
    {k \in DOMAIN History :
        /\ History[k].ticker = ticker
        /\ History[k].snapshot_time >= now - WindowHours
        /\ notna(History[k].yes_price)}

RECURSIVE SumOver(_, _)
SumOver(S, f) ==
    IF S = {} THEN 0
    ELSE LET k == CHOOSE x \in S : TRUE IN f[k] + SumOver(S \ {k}, f)

\* r is the sample standard deviation of the prices of the snapshots S,
\* rounded down to a multiple of 1/Scale
IsSampleStd(r, S) ==
    LET n == Cardinality(S)
        price == [k \in DOMAIN History |-> fillna(History[k].yes_price, 0)]
        square == [k \in DOMAIN History |-> price[k] * price[k]]
        sum == SumOver(S, price)
        var == (Scale * (n * SumOver(S, square) - sum * sum)) \div (n * (n - 1))
    IN r >= 0 /\ r * r <= var /\ var < (r + 1) * (r + 1)

VolatilityTable == compute_volatility(History, now, WindowHours)
VolatilityRowsOf(ticker) ==
    {k \in DOMAIN VolatilityTable : VolatilityTable[k].ticker = ticker}

\* C9: compute_volatility uses only the snapshots of the last window_hours;
\* its result has exactly one row for each ticker with at least 2 non-missing
\* prices in the window, holding their sample standard deviation (>= 0), and
\* no row for a ticker with fewer; compute_all_signals left-joins it on
\* ticker, so a market without a row has a missing volatility.
C9_Volatility ==
    (Scored /\ ~NoHistory) =>
        /\ \A k \in DOMAIN VolatilityTable : VolatilityTable[k].ticker \in Tickers
        /\ \A ticker \in Tickers :
              IF Cardinality(PricedInWindow(ticker)) >= 2
              THEN /\ Cardinality(VolatilityRowsOf(ticker)) = 1
                   /\ \A k \in VolatilityRowsOf(ticker) :
                         /\ notna(VolatilityTable[k].volatility)
                         /\ IsSampleStd(Get(VolatilityTable[k].volatility),
                                        PricedInWindow(ticker))
              ELSE VolatilityRowsOf(ticker) = {}
        /\ Len(signals_df) = Len(markets_df)
        /\ \A i \in DOMAIN signals_df :
              IF VolatilityRowsOf(signals_df[i].ticker) = {}
              THEN signals_df[i].volatility = NaN
              ELSE \E k \in VolatilityRowsOf(signals_df[i].ticker) :
                      signals_df[i].volatility = VolatilityTable[k].volatility

\* C9 witness: a ticker has two priced snapshots in the window and a positive
\* volatility, a snapshot outside the window was left out of it or another
\* market has no row and a missing volatility.
C9_Witness ==
    /\ Scored
    /\ ~NoHistory
    /\ \E i \in DOMAIN signals_df :
          /\ notna(signals_df[i].volatility)
          /\ Get(signals_df[i].volatility) > 0
          /\ Cardinality(PricedInWindow(signals_df[i].ticker)) = 2
    /\ \E j \in DOMAIN signals_df : signals_df[j].volatility = NaN

-----------------------------------------------------------------------------
(* Properties of the normalizer *)

Normalized == pc = "normalized"

\* building the row of this record raises nothing: every price is absent or a
\* number and every timestamp is absent or parseable
WellFormed(market) ==
    /\ \A price \in {"yes_price", "no_price", "last_price", "previous_yes_price"} :
          market[price].kind \in {"absent", "int"}
    /\ \A time \in {"open_time", "close_time", "expiration_time"} :
          market[time].kind \in {"absent", "iso"}

WellFormedRecords == {i \in DOMAIN raw_markets : WellFormed(raw_markets[i])}

\* the row is the row of the record
RowOfRecord(row, market) ==
    /\ row.ticker = market.ticker
    /\ row.yes_price = (IF market.yes_price.kind = "int" /\ market.yes_price.val # 0
                        THEN Val(market.yes_price.val) ELSE NaN)
    /\ row.open_time = (IF market.open_time.kind = "iso"
                        THEN Val(market.open_time.val) ELSE NaN)

\* C10: normalize_markets never fails a whole batch because of one record: a
\* record whose normalization raises is skipped and every other record yields
\* exactly one row, in input order; k well-formed records yield k rows.
C10_PartialFailure ==
    Normalized =>
        /\ raised = ""
        /\ Len(markets_df) = Cardinality(WellFormedRecords)
        /\ \E f \in [DOMAIN markets_df -> DOMAIN raw_markets] :
              /\ \A k \in DOMAIN markets_df :
                    f[k] \in WellFormedRecords /\ RowOfRecord(markets_df[k], raw_markets[f[k]])
              /\ \A k, l \in DOMAIN markets_df : k < l => f[k] < f[l]

\* C10 witness: the first record of a batch raises (an unparseable open_time or
\* a non-numeric price), the record after it is well formed and is the only
\* row of the result.
C10_Witness ==
    /\ Normalized
    /\ Len(raw_markets) = 2
    /\ ~WellFormed(raw_markets[1])
    /\ WellFormed(raw_markets[2])
    /\ raw_markets[1].ticker # raw_markets[2].ticker
    /\ Len(markets_df) = 1
    /\ markets_df[1].ticker = raw_markets[2].ticker

\* the k-th record of the batch among those satisfying Accepted
NthRecord(Accepted(_), k) ==
    raw_markets[CHOOSE i \in DOMAIN raw_markets :
        /\ Accepted(raw_markets[i])
        /\ Cardinality({j \in 1..i : Accepted(raw_markets[j])}) = k]

\* C11: a raw record without a ticker is skipped: no row of the tables
\* returned by normalize_markets, normalize_liquidity_spread and
\* normalize_snapshots has a missing ticker.
C11_TickerRequired ==
    /\ \A k \in DOMAIN markets_df : markets_df[k].ticker # NoTicker
    /\ \A k \in DOMAIN liquidity_df : liquidity_df[k].ticker # NoTicker
    /\ \A k \in DOMAIN snapshot : snapshot[k].ticker # NoTicker

\* the normalized price a raw price field must give: the raw number of cents
\* (cents / 100 of the probability unit) when it is 1..100, missing when the
\* field is absent or 0
PriceRule(raw, price) ==
    /\ (raw.kind = "int" /\ raw.val \in 1..CentsPerUnit) =>
          /\ price = Val(raw.val)
          /\ Get(price) >= 0 /\ Get(price) <= CentsPerUnit
    /\ (raw.kind = "absent" \/ (raw.kind = "int" /\ raw.val = 0)) =>
          /\ price = NaN
          /\ price # Val(0)

\* C12: in every row of normalize_markets, yes_price, no_price, last_price and
\* previous_yes_price are the raw cents / 100, within [0,1], when the raw field
\* is a number of cents in 1..100, and are missing, never 0, when the raw
\* field is absent or 0.
C12_PriceRule ==
    Normalized =>
        \A k \in DOMAIN markets_df : \A f \in PriceFields :
            PriceRule(NthRecord(WellFormed, k)[f], markets_df[k][f])

\* C12 witness: one row carries a price of 100 cents, a price of 50 cents, a
\* price missing for a raw 0 and a price missing for an absent field.
C12_Witness ==
    /\ Normalized
    /\ Len(raw_markets) = 1 /\ Len(markets_df) = 1
    /\ raw_markets[1].yes_price = RawInt(CentsPerUnit)
    /\ markets_df[1].yes_price = Val(CentsPerUnit)
    /\ raw_markets[1].no_price = RawInt(0) /\ markets_df[1].no_price = NaN
    /\ raw_markets[1].last_price = Absent /\ markets_df[1].last_price = NaN
    /\ raw_markets[1].previous_yes_price = RawInt(50)
    /\ markets_df[1].previous_yes_price = Val(50)

HasLiquidity == pc \in {"liquidity", "snapshots", "merged"}
ReadableBook(market) == market.orderbook.kind # "none"
PricesOf(levels, type) == {levels[i].price : i \in {j \in DOMAIN levels : levels[j].type = type}}

\* the liquidity row is the one the yes side of the record's orderbook demands
BestOfYes(row, market) ==
    LET bids == PricesOf(market.orderbook.yes, "bid")
        asks == PricesOf(market.orderbook.yes, "ask")
    IN /\ row.yes_best_bid = (IF bids = {} THEN NaN ELSE Val(SetMax(bids)))
       /\ row.yes_best_ask = (IF asks = {} THEN NaN ELSE Val(SetMin(asks)))
       /\ IF bids # {} /\ asks # {}
          THEN /\ row.spread = Val(SetMin(asks) - SetMax(bids))
               /\ notna(row.mid_price)
               /\ 2 * Get(row.mid_price) = (SetMax(bids) + SetMin(asks)) * CentsPerUnit
          ELSE row.spread = NaN /\ row.mid_price = NaN

\* C13: in every row of normalize_liquidity_spread yes_best_bid is the highest
\* price of the bid levels of the yes side and yes_best_ask the lowest price of
\* its ask levels, in whatever order the levels come; spread is their
\* difference and mid_price their mean when both exist, both are missing
\* otherwise; the levels of the no side play no part.
C13_BestBidAsk ==
    HasLiquidity =>
        \A k \in DOMAIN liquidity_df :
            BestOfYes(liquidity_df[k], NthRecord(ReadableBook, k))

\* C13 witness: the best bid is not the last bid of the yes side, an ask
\* follows it, the no side has levels of its own, and spread and mid_price are
\* those of the yes side.
C13_Witness ==
    /\ HasLiquidity
    /\ Len(liquidity_df) = 1
    /\ LET yes == raw_markets[1].orderbook.yes
       IN /\ Len(yes) = 3
          /\ yes[1].type = "bid" /\ yes[2].type = "bid" /\ yes[3].type = "ask"
          /\ yes[1].price > yes[2].price
          /\ yes[3].price > yes[1].price
          /\ raw_markets[1].orderbook.no # <<>>
          /\ liquidity_df[1].spread = Val(yes[3].price - yes[1].price)
          /\ liquidity_df[1].no_best_bid # NaN

-----------------------------------------------------------------------------
(* Properties of the section organizer *)

Organized == pc = "organized" /\ raised = ""

\* the three texts of a row as they are, joined by spaces
JoinedText(row) ==
    Get(TextCell(row, "category")) \o <<" ">> \o Get(TextCell(row, "title"))
    \o <<" ">> \o Get(TextCell(row, "subtitle"))

\* keyword occurs in text, letters compared without regard to case
OccursIn(keyword, text) ==
    \E i \in 0..(Len(text) - Len(keyword)) :
        \A j \in DOMAIN keyword : LowerChar(text[i + j]) = LowerChar(keyword[j])

\* the keywords of the k-th section that occur in the row's text
KeywordsFound(row, k) ==
    {i \in DOMAIN CATEGORY_MAPPINGS[k].keywords :
        OccursIn(CATEGORY_MAPPINGS[k].keywords[i], JoinedText(row))}

FirstMatchWins(row) ==
    IF \A k \in DOMAIN CATEGORY_MAPPINGS : KeywordsFound(row, k) = {}
    THEN row.section = "Other"
    ELSE \E k \in DOMAIN CATEGORY_MAPPINGS :
            /\ row.section = CATEGORY_MAPPINGS[k].section
            /\ KeywordsFound(row, k) # {}
            /\ \A h \in 1..(k - 1) : KeywordsFound(row, h) = {}

\* C14: the section categorize_market gives a row is the first of Politics,
\* Business, Tech, Culture, Sports one of whose keywords occurs, case
\* disregarded, in the joined category, title and subtitle, even when a later
\* section has more keywords occurring; it is Other when no keyword occurs.
C14_FirstMatch ==
    Organized =>
        \A name \in ViewNames : \A k \in DOMAIN sections[name] :
            FirstMatchWins(sections[name][k])

\* C14 witness: a row in which one Business keyword and, after it in the
\* table, one Culture and one Sports keyword occur is of Business; a row whose
\* keyword occurs in capitals is of Politics; a row without keyword is Other.
C14_Witness ==
    /\ Organized
    /\ \E k \in DOMAIN sections["Top Stories"] :
          LET row == sections["Top Stories"][k]
          IN /\ row.section = "Business"
             /\ KeywordsFound(row, 1) = {}
             /\ Cardinality(KeywordsFound(row, 2)) = 1
             /\ Cardinality(KeywordsFound(row, 4) \cup KeywordsFound(row, 5)) >= 2
    /\ \E k \in DOMAIN sections["Top Stories"] :
          sections["Top Stories"][k].section \in {"Other", "Politics"}

\* C15: categorize_market returns one of the six sections for every row
\* normalize_markets can produce, rows with a null title, subtitle or category
\* included, and never raises: organize_into_sections, which applies it to
\* every row, lets no exception escape.
C15_Total ==
    pc = "organized" =>
        /\ raised = ""
        /\ \A name \in ViewNames : \A k \in DOMAIN sections[name] :
              sections[name][k].section \in
                  {"Other"} \cup {SectionNames[i] : i \in DOMAIN SectionNames}

\* the column the category sections are sorted by
SortColumn ==
    IF HasColumn(signals_df, "newsworthiness") THEN "newsworthiness" ELSE "attention_score"

\* a row of a view, as it was in the table handed in
Unsectioned(row) == [c \in DOMAIN row \ {"section"} |-> row[c]]
RowsOfTable == {signals_df[i] : i \in DOMAIN signals_df}
\* the rows handed in, without the section column the organizer overwrites
RowsHandedIn == {Unsectioned(r) : r \in RowsOfTable}

\* view holds the min(cap, .) best rows of Candidates by col, best first
IsTopOf(view, Candidates, col, cap) ==
    /\ Len(view) = Min2(cap, Cardinality(Candidates))
    /\ \A k \in DOMAIN view : Unsectioned(view[k]) \in Candidates
    /\ \A k, l \in DOMAIN view : k < l =>
          /\ view[k].ticker # view[l].ticker
          /\ ~Before(view[l][col], view[k][col])
    /\ \A r \in Candidates :
          (\A k \in DOMAIN view : view[k].ticker # r.ticker) =>
              \A k \in DOMAIN view : ~Before(r[col], view[k][col])

\* C16: organize_into_sections returns for each of the five sections the (at
\* most 15) rows categorize_market gives that section, the best by
\* newsworthiness first (by attention_score in a table without newsworthiness
\* column), and as Top Stories the (at most 10) rows of highest newsworthiness
\* of the whole table whatever their section; no row is in two category
\* sections.
C16_Sections ==
    Organized =>
        /\ \A k \in DOMAIN SectionNames :
              IsTopOf(sections[SectionNames[k]],
                      {r \in RowsHandedIn : categorize_market(r) = SectionNames[k]},
                      SortColumn, SectionCap)
        /\ \A k \in DOMAIN SectionNames :
              \A i \in DOMAIN sections[SectionNames[k]] :
                  sections[SectionNames[k]][i].section = SectionNames[k]
        /\ HasColumn(signals_df, "newsworthiness") =>
              IsTopOf(sections["Top Stories"], RowsHandedIn, "newsworthiness",
                      TopStoriesCount)

\* C16 witness: a section of more than 15 rows is cut to its 15 best, Top
\* Stories holds 10 rows, and a row is both in its section and in Top Stories.
C16_Witness ==
    /\ Organized
    /\ Len(signals_df) > SectionCap
    /\ \A i \in DOMAIN signals_df : categorize_market(signals_df[i]) = "Politics"
    /\ Len(sections["Politics"]) = SectionCap
    /\ Len(sections["Top Stories"]) = TopStoriesCount
    /\ sections["Politics"][1] = sections["Top Stories"][1]
    /\ Unsectioned(sections["Politics"][1]) = Unsectioned(signals_df[Len(signals_df)])
    /\ \A k \in DOMAIN sections["Politics"] :
          Unsectioned(sections["Politics"][k]) # Unsectioned(signals_df[1])

Identified == pc \in {"developing", "lowered"} /\ raised = ""

\* a missing value counts as 0
OrZero(x) == IF x = NaN THEN 0 ELSE x[1]

ByVolatility(row, t) == OrZero(row.volatility) > t.volatility_threshold
ByDelta(row, t) == Abs(OrZero(row.delta_24h)) > t.delta_threshold
ByAttention(row) ==
    /\ 10 * OrZero(row.attention_score) > 7 * Scale
    /\ Abs(OrZero(row.delta_24h)) > 2

\* the rows of the table that satisfy at least one clause under thresholds t
QualifyingSet(t) ==
    {r \in RowsOfTable : ByVolatility(r, t) \/ ByDelta(r, t) \/ ByAttention(r)}

\* 0.5 * attention_score + 0.5 * volatility / (maximum volatility of the
\* qualifying set), doubled and in units of 1/Scale; the second term is 0 when
\* that maximum is 0
ExpectedScore(row, t) ==
    LET m == SetMax({OrZero(r.volatility) : r \in QualifyingSet(t)})
    IN OrZero(row.attention_score)
       + (IF m > 0 THEN (Scale * OrZero(row.volatility)) \div m ELSE 0)

Undeveloped(row) == [c \in DOMAIN row \ {"developing_score"} |-> row[c]]

\* C17: identify_developing_stories returns only rows satisfying at least one
\* of the three clauses (a missing value counting as 0), all of them when at
\* most 10 satisfy one, never more than 10, in descending order of
\* 0.5 * attention_score + 0.5 * volatility / maximum volatility of the
\* qualifying set, a row left out scoring no higher than a row returned.
C17_Developing ==
    Identified =>
        LET Q == QualifyingSet(thresholds)
        IN /\ Len(developing_stories) = Min2(DevelopingCap, Cardinality(Q))
           /\ \A k \in DOMAIN developing_stories :
                 /\ Undeveloped(developing_stories[k]) \in Q
                 /\ developing_stories[k].developing_score =
                        Val(ExpectedScore(developing_stories[k], thresholds))
           /\ \A k, l \in DOMAIN developing_stories : k < l =>
                 /\ developing_stories[k].ticker # developing_stories[l].ticker
                 /\ ExpectedScore(developing_stories[k], thresholds)
                        >= ExpectedScore(developing_stories[l], thresholds)
           /\ \A r \in Q :
                 (\A k \in DOMAIN developing_stories :
                        developing_stories[k].ticker # r.ticker) =>
                     \A k \in DOMAIN developing_stories :
                         ExpectedScore(r, thresholds)
                            <= ExpectedScore(developing_stories[k], thresholds)

\* C17 witness: of two rows returned, the first qualifies by the volatility
\* clause alone and the second by the attention clause alone.
C17_Witness ==
    /\ Identified
    /\ Len(signals_df) = 2
    /\ Len(developing_stories) = 2
    /\ LET first == developing_stories[1]
           second == developing_stories[2]
       IN /\ ByVolatility(first, thresholds)
          /\ ~ByDelta(first, thresholds) /\ ~ByAttention(first)
          /\ ByAttention(second)
          /\ ~ByVolatility(second, thresholds) /\ ~ByDelta(second, thresholds)
          /\ ExpectedScore(first, thresholds) > ExpectedScore(second, thresholds)

TickersOf(df) == {df[k].ticker : k \in DOMAIN df}
Lowered == pc = "lowered"
LoweredThresholds == lowered.thresholds

\* C18 as stated: with thresholds lowered, every market returned before is
\* returned again, whatever the size of the table.
C18_AsStated ==
    Lowered => TickersOf(developing_stories) \subseteq TickersOf(lowered.developing)

\* C18: lowering a threshold never removes a row from the qualifying set, and
\* every market returned with the higher thresholds is returned with the lower
\* ones whenever at most 10 rows qualify under the lower ones.
C18_Monotonic ==
    Lowered =>
        /\ QualifyingSet(thresholds) \subseteq QualifyingSet(LoweredThresholds)
        /\ TickersOf(developing_stories) \subseteq
              {r.ticker : r \in QualifyingSet(LoweredThresholds)}
        /\ Cardinality(QualifyingSet(LoweredThresholds)) <= DevelopingCap =>
              TickersOf(developing_stories) \subseteq TickersOf(lowered.developing)

\* C18 witness: both thresholds were lowered and a market that did not qualify
\* before is returned next to the one returned before.
C18_Witness ==
    /\ Lowered
    /\ LoweredThresholds.volatility_threshold < thresholds.volatility_threshold
    /\ LoweredThresholds.delta_threshold < thresholds.delta_threshold
    /\ Len(developing_stories) = 1
    /\ Len(lowered.developing) = 2
    /\ TickersOf(developing_stories) \subseteq TickersOf(lowered.developing)

\* C19: on the empty table organize_into_sections, identify_developing_stories
\* and the selectors of the notebook each return an empty result, every
\* section empty and no lead story, and none raises.
C19_EmptyInput ==
    signals_df = <<>> =>
        /\ raised = ""
        /\ pc = "organized" => \A name \in ViewNames : sections[name] = <<>>
        /\ pc \in {"developing", "lowered"} => developing_stories = <<>>
        /\ pc = "selected" => \A k \in DOMAIN selected : selected[k] = <<>>

-----------------------------------------------------------------------------
(* Properties of the application *)

LiveFailed == last_fetch.live \in {"raised", "empty"}

-----------------------------------------------------------------------------
(* Further properties of the section organizer *)

SportsWord == <<"s", "p", "o", "r", "t", "s">>

\* C27: a row in whose joined category, title and subtitle 'sports' occurs,
\* case disregarded, is never given the section Sports: it is of Politics,
\* Business, Tech or Culture, and no row of sections['Sports'] has the word.
C27_SportsShadowed ==
    Organized =>
        /\ \A name \in ViewNames : \A k \in DOMAIN sections[name] :
              OccursIn(SportsWord, JoinedText(sections[name][k])) =>
                  sections[name][k].section \in {"Politics", "Business", "Tech", "Culture"}
        /\ \A k \in DOMAIN sections["Sports"] :
              ~OccursIn(SportsWord, JoinedText(sections["Sports"][k]))

\* C27 witness: a market of category 'Sports' is in Culture while a market
\* with another Sports keyword is in Sports.
C27_Witness ==
    /\ Organized
    /\ \E k \in DOMAIN sections["Culture"] :
          /\ sections["Culture"][k].category = Val(Texts.sports)
          /\ KeywordsFound(sections["Culture"][k], 4) = {3}
    /\ sections["Sports"] # <<>>

-----------------------------------------------------------------------------
(* Further properties of the normalizer *)

\* C30: merge_normalized_data returns exactly one row per row of the
\* normalized markets table, for every raw batch of records with a ticker, a
\* batch in which a ticker appears more than once included.
C30_RowCount ==
    pc = "merged" /\ (\A i \in DOMAIN raw_markets : raw_markets[i].ticker \in Tickers) =>
        Len(markets_df) = Len(normalize_markets(raw_markets, now))

-----------------------------------------------------------------------------
(* Further properties of the signal engine *)

SignalColumns == {"delta_24h", "delta_7d", "volatility", "attention_score",
                  "confidence_score"}

\* C23: the table compute_all_signals returns has the columns delta_24h,
\* delta_7d, volatility, attention_score and confidence_score, each once and
\* under its own name, also when the table handed in is one compute_all_signals
\* returned before.
C23_SignalColumns ==
    pc \in {"scored", "rescored"} /\ raised = "" =>
        \A i \in DOMAIN signals_df :
            /\ SignalColumns \subseteq DOMAIN signals_df[i]
            /\ {"volatility_x", "volatility_y"} \cap DOMAIN signals_df[i] = {}

-----------------------------------------------------------------------------
(* Properties of the demo file loader *)

\* C24: load_demo_data_from_files(limit) returns, for every limit >= 0 and
\* every list stored in the demo file, the empty list included.
C24_Terminates == <>(pc = "loaded")

\* the list the loader returns has exactly limit records
ReturnsExactlyLimit == pc = "loaded" => Len(loader.result) = loader.limit

\* a file of one record is replicated to a limit of MaxLoad
ReplicatedToLimit ==
    /\ pc = "loaded"
    /\ Len(loader.file.markets) = 1
    /\ Len(loader.result) = MaxLoad

\* C25: a top-level fetch_data makes at most one call to itself, and makes
\* it only after the live source raised or returned nothing, with use_demo
\* already True; a call that starts with use_demo True makes none, whatever
\* happens in it; and the call returns False when use_demo is True and the
\* demo generator cannot be imported, returns no market or raises.
C25_AtMostOneFallback ==
    pc = "app" /\ last_fetch.calls >= 1 =>
        /\ last_fetch.calls <= 2
        /\ last_fetch.calls = 2 <=> LiveFailed
        /\ last_fetch.calls = 2 => use_demo
        /\ last_fetch.live = "skipped" => last_fetch.calls = 1
        /\ use_demo /\ (~DEMO_AVAILABLE \/ last_fetch.limit = 0 \/ ~last_fetch.integral)
              => ~last_fetch.ok

\* C25 witness: the live fetch raised, the call that followed it raised in the
\* demo generator with use_demo True, and fetch_data returned False after
\* two calls.
C25_Witness ==
    /\ pc = "app"
    /\ DEMO_AVAILABLE
    /\ ~last_fetch.integral
    /\ last_fetch.live = "raised"
    /\ last_fetch.calls = 2
    /\ ~last_fetch.ok
    /\ use_demo

\* C26: no step sets use_demo back to False, and a refresh of a MarketPress
\* whose use_demo is True does not ask the live source: what it shows
\* afterwards is what it showed before or a table of demo markets.  After a
\* fetch in which the live source raised or returned nothing use_demo is True.
C26_DemoIsSticky ==
    [][/\ pc = "app" /\ LiveFailed' => use_demo'
       /\ pc = "app" /\ use_demo =>
             /\ use_demo'
             /\ last_fetch'.live = "skipped"
             /\ origin' \in {origin, "demo"}
             /\ last_fetch'.ok => origin' = "demo"]_vars

\* C26 witness: a MarketPress fetched a live market, fell back later, and has
\* been refreshed again since without asking the live source.
C26_Witness ==
    /\ pc = "app"
    /\ use_demo
    /\ last_fetch.live = "skipped"
    /\ last_fetch.ok
    /\ \E i \in 1..Len(Get(historical_snapshots)) :
          Get(historical_snapshots)[i].ticker = "A"

\* The rows a step appended to the snapshot table, when the table it had is
\* a prefix of the table it has.
KeptSnapshots ==
    /\ Len(Get(historical_snapshots)) <= Len(Get(historical_snapshots'))
    /\ SubSeq(Get(historical_snapshots'), 1, Len(Get(historical_snapshots)))
          = Get(historical_snapshots)

AppendedSnapshots ==
    SubSeq(Get(historical_snapshots'), Len(Get(historical_snapshots)) + 1,
           Len(Get(historical_snapshots')))

\* C22 as stated: the snapshot table only grows at its end; a fetch_data
\* that returns True appends exactly one snapshot per record of its batch,
\* all of the instant of the fetch, and one that returns False appends none.
C22_AsStated ==
    [][pc = "app" =>
          /\ KeptSnapshots
          /\ last_fetch'.ok =>
                /\ Len(AppendedSnapshots) = Len(raw_markets')
                /\ \A i \in 1..Len(AppendedSnapshots) :
                      AppendedSnapshots[i].snapshot_time = now'
          /\ ~last_fetch'.ok => AppendedSnapshots = <<>>]_vars

\* C22, amended: the snapshot table only grows at its end; a fetch_data
\* that returns True appends the snapshots normalize_snapshots built from its
\* batch, at most one per record and in the order of the records it did not
\* skip, all of the instant of the fetch; one that returns False appends none.
C22_AppendOnly ==
    [][pc = "app" =>
          /\ KeptSnapshots
          /\ last_fetch'.ok =>
                /\ AppendedSnapshots = snapshot'
                /\ Len(AppendedSnapshots) <= Len(raw_markets')
                /\ \E kept \in SUBSET (1..Len(raw_markets')) :
                      /\ Cardinality(kept) = Len(AppendedSnapshots)
                      /\ \A i \in 1..Len(AppendedSnapshots) :
                            \E k \in kept :
                               /\ Cardinality({j \in kept : j <= k}) = i
                               /\ AppendedSnapshots[i].ticker = raw_markets'[k].ticker
                /\ \A i \in 1..Len(AppendedSnapshots) :
                      AppendedSnapshots[i].snapshot_time = now'
          /\ ~last_fetch'.ok => AppendedSnapshots = <<>>]_vars

\* C22 witness: a second batch was appended to the snapshots of a first one,
\* with fewer snapshots than the batch has records.
C22_Witness ==
    /\ pc = "app"
    /\ last_fetch.ok
    /\ snapshot # <<>>
    /\ Len(snapshot) < Len(raw_markets)
    /\ Len(Get(historical_snapshots)) > Len(snapshot)

\* C21: after every refresh, each market held in a section, Top Stories and
\* Developing included, is a row of the current markets_df: on the columns of
\* markets_df it equals one of its rows.
C21_SectionsRebuilt ==
    pc = "app" =>
        \A name \in DOMAIN sections :
           \A i \in 1..Len(sections[name]) :
              \E j \in 1..Len(markets_df) :
                 \A c \in DOMAIN markets_df[j] :
                    /\ c \in DOMAIN sections[name][i]
                    /\ sections[name][i][c] = markets_df[j][c]

\* C28: markets_df never has a newsworthiness column, so that after every
\* refresh that organized sections each category section is in descending
\* order of attention_score, whatever the newsworthiness of its rows, while
\* Top Stories is what rank_top_stories returns for markets_df: at most 15
\* rows in descending order of newsworthiness.
C28_SectionOrder ==
    pc = "app" /\ sections # <<>> =>
        /\ ~HasColumn(markets_df, "newsworthiness")
        /\ \A k \in DOMAIN SectionNames :
              LET view == sections[SectionNames[k]]
              IN \A i, j \in DOMAIN view : i < j =>
                    ~Before(view[j].attention_score, view[i].attention_score)
        /\ Len(sections["Top Stories"]) <= RankedStories
        /\ \A i, j \in DOMAIN sections["Top Stories"] : i < j =>
              /\ notna(sections["Top Stories"][j].newsworthiness)
              /\ Get(sections["Top Stories"][i].newsworthiness)
                    >= Get(sections["Top Stories"][j].newsworthiness)
        /\ markets_df # <<>> =>
              sections["Top Stories"] = rank_top_stories(markets_df, RankedStories)

\* C28 witness: two markets of one section are in the order of their
\* attention_score there and in the opposite order in Top Stories.
C28_Witness ==
    /\ pc = "app"
    /\ last_fetch.ok
    /\ markets_df # <<>>
    /\ \E k \in DOMAIN SectionNames :
          LET view == sections[SectionNames[k]]
              top == sections["Top Stories"]
          IN /\ Len(view) = 2
             /\ Len(top) = 2
             /\ Get(view[1].attention_score) > Get(view[2].attention_score)
             /\ top[1].ticker = view[2].ticker
             /\ Get(top[1].newsworthiness) > Get(top[2].newsworthiness)

\* The fetch that just returned True was the first to append snapshots, and
\* the records of its batch have tickers distinct from each other.
FirstBatch ==
    /\ pc = "app"
    /\ last_fetch.ok
    /\ markets_df # <<>>
    /\ Get(historical_snapshots) = snapshot
    /\ \A i, j \in DOMAIN raw_markets :
          i # j => raw_markets[i].ticker # raw_markets[j].ticker

\* C29: after the refresh that appends the first snapshots, of a batch of
\* distinct tickers, the history compute_all_signals was given is that
\* batch's own snapshots, not empty, so that the previous_yes_price proxy is
\* not used: delta_24h, delta_7d and volatility of every market are missing
\* and sections['Developing'] is empty.
C29_FirstRefresh ==
    FirstBatch =>
        /\ Get(historical_snapshots) # <<>>
        /\ \A i \in DOMAIN markets_df :
              /\ markets_df[i].delta_24h = NaN
              /\ markets_df[i].delta_7d = NaN
              /\ markets_df[i].volatility = NaN
        /\ sections["Developing"] = <<>>

\* C29 witness: a first batch holds a market whose previous_yes_price is 15
\* cents from its yes_price; its delta_24h is missing all the same.
C29_Witness ==
    /\ FirstBatch
    /\ \E i \in DOMAIN markets_df :
          /\ notna(markets_df[i].previous_yes_price)
          /\ notna(markets_df[i].yes_price)
          /\ Abs(Get(markets_df[i].yes_price) - Get(markets_df[i].previous_yes_price)) = 15
          /\ markets_df[i].delta_24h = NaN

====
